---------------------------- MODULE Spec2Model ----------------------------
(* The client side of the remote driver's RPC multiplexer                   *)
(* (src/src/remote/remote_driver.c): caller threads share one connection,   *)
(* queue their calls on priv->waitDispatch and pass the dispatcher role     *)
(* ("the buck") between them.                                               *)
(*                                                                          *)
(* Granularity: every action is one stretch of code that runs with the      *)
(* connection mutex held.  The mutex is released in exactly two places of   *)
(* the modelled code, inside virCondWait (pc = "sleep") and around poll()   *)
(* (pc = "poll").  virCondWait is taken to return only after a              *)
(* virCondSignal on the call's condition variable.                          *)
EXTENDS Integers, Sequences, FiniteSets, TLC

(* ------------------------------ bounds ---------------------------------- *)
NThreads == 3
MaxCalls == 3
MaxData == 1
MaxStreams == 1
MaxCallsSend == 4
MaxRoomUnits == 1
MaxStreamsWide == 2
MaxCallsWide == 3
MaxCallsErr == 2
MaxCallsFrames == 2
MaxCallsEvents == 2
MaxEvents == 2
MaxSaslSteps == 2
\* the most uses of one connection: the primary open and the secondary ones
MaxOpens == 3
\* the most ordinary calls in the specification of the close
MaxCallsClose == 2
\* the most callbacks of one event id, and the most calls that enable or
\* disable events
MaxCallbacks == 2
MaxCallsReg == 3
\* the most calls in the specification of the wake-up pipe
MaxCallsWake == 3
\* the most calls in the specification with fairness
MaxCallsLive == 3
\* the most calls in the specification with the security wrapper
MaxCallsSasl == 3
\* the most call objects and streams in the specification of the poll interest
MaxCallsPoll == 3
MaxStreamsPoll == 1
\* streams and calls of the scenario that releases streams of a longer registry
MaxStreamsRelease == 3
MaxCallsRelease == 4
\* callbacks that are added to one stream, and streams and calls of the
\* scenarios with stream callbacks
MaxStreamCallbacks == 2
MaxStreamsTimer == 2
MaxCallsTimer == 3
MaxCallbacksTimer == 1

(* ------------------------- program constants ---------------------------- *)
REMOTE_MODE_WAIT_TX == 0
REMOTE_MODE_WAIT_RX == 1
REMOTE_MODE_COMPLETE == 2
REMOTE_MODE_ERROR == 3

\* 4-byte length word that precedes every frame
REMOTE_MESSAGE_HEADER_XDR_LEN == 4
\* XDR size of remote_message_header: six 4-byte fields
HeaderLen == 24
\* REMOTE_MESSAGE_MAX of remote_protocol.h, the largest header plus body
REMOTE_MESSAGE_MAX == 262144
\* sizeof priv->buffer
BufferSize == 4 + REMOTE_MESSAGE_MAX

\* virErrorDomain, virErrorLevel and virErrorNumber (include/libvirt/virterror.h)
VIR_FROM_XEN == 1
VIR_FROM_QEMU == 10
VIR_FROM_REMOTE == 13
VIR_FROM_NWFILTER == 33
VIR_ERR_WARNING == 1
VIR_ERR_ERROR == 2
VIR_ERR_INTERNAL_ERROR == 1
VIR_ERR_NO_SUPPORT == 3
VIR_ERR_RPC == 39
VIR_WAR_NO_NWFILTER == 60
VIR_ERR_INVALID_NWFILTER == 61
VIR_ERR_NO_NWFILTER == 62
VIR_ERR_BUILD_FIREWALL == 63
VIR_WAR_NO_SECRET == 64
VIR_ERR_INVALID_SECRET == 65
VIR_ERR_OPERATION_TIMEOUT == 68
VIR_ERR_MIGRATE_PERSIST_FAILED == 69

Threads == 1..NThreads
CallIds == 1..MaxCalls

\* bytes the transport accepts in one pass of the write sub-machine
RoomUnit == 32
Rooms == {k * RoomUnit : k \in 0..MaxRoomUnits}
\* offsets at which the delivery of an inbound frame may pause
RxSplits == {2}
\* payload sizes: arguments of a call, data of a stream packet, buffer of a receive
ArgLens == {0}
DataLen == 4
RecvSizes == {2}

Min(a, b) == IF a < b THEN a ELSE b

\* the kinds of call objects that call() builds with prepareCall: a plain
\* call, the call that opens a stream, the calls of doRemoteOpen with
\* remoteAuthenticate and remoteAuthSASL, of doRemoteClose, and of the
\* registration and deregistration of an event callback
OpenKinds == {"auth_list", "sasl_init", "sasl_start", "sasl_step", "open_rpc"}

PlainKinds == {"call", "close", "register", "deregister"} \cup OpenKinds

PreparedKinds == PlainKinds \cup {"open"}

Terminal(m) == m = REMOTE_MODE_COMPLETE \/ m = REMOTE_MODE_ERROR

Range(s) == {s[i] : i \in 1..Len(s)}

\* position of x in sequence s, 0 when absent
RECURSIVE IndexOf(_, _)
IndexOf(s, x) ==
    IF s = <<>> THEN 0
    ELSE IF Head(s) = x THEN 1
    ELSE LET r == IndexOf(Tail(s), x) IN IF r = 0 THEN 0 ELSE r + 1

\* the list that starts after element x (x->next); the whole list when x is absent
After(s, x) == LET i == IndexOf(s, x) IN
    IF i = 0 THEN s ELSE SubSeq(s, i + 1, Len(s))

Remove(s, x) == SelectSeq(s, LAMBDA y : y # x)

VARIABLES
    counter,       \* priv->counter
    nextId,        \* next call object to allocate
    calls,         \* call objects (struct remote_thread_call) by id
    waitDispatch,  \* priv->waitDispatch, the linked list as a sequence of ids
    streams,       \* priv->streams, the registry as a sequence of records
    stOpen,        \* serials of the streams whose handle the application may use
    bufferOffset,  \* priv->bufferOffset
    bufferLength,  \* priv->bufferLength
    rxFrame,       \* the inbound frame being delivered / held in priv->buffer
    wakeBytes,     \* unread bytes in the wake-up pipe
    pc,            \* per thread: "idle", "sleep", "poll", "halt"
    cur,           \* per thread: id of the call it is executing, 0 if none
    fds,           \* per thread: fds[0].events of its poll()
    nbytes,        \* per thread: size of the buffer passed to remoteStreamRecv
    last,          \* the return of an operation made by the latest step, if any
    wire,          \* bytes written to the transport, as one run per stretch of
                   \* bytes of the same call
    srv,           \* what the server has received and not yet answered
    sock,          \* "open" or "closed" (the peer closed the transport)
    delivered,     \* per stream serial: bytes that remoteStreamRecv has returned
    eventQueue,    \* the events queued on priv->domainEventState
    notified,      \* the events that were handed to the callbacks, in order
    dispatched,    \* the frame that the latest step handed to processCallDispatch
                   \* and the number of its bytes that were in priv->buffer, if any
    halted,        \* "no", or how the process stopped: "fault" on a freed
                   \* object, "spin" in the unlink loop of remoteStreamRelease
    priv           \* the other fields of struct private_data, and where the
                   \* thread that opens the connection stands in doRemoteOpen

vars == <<counter, nextId, calls, waitDispatch, streams, stOpen, bufferOffset,
          bufferLength, rxFrame, wakeBytes, pc, cur, fds, nbytes, last, wire,
          srv, sock, delivered, eventQueue, notified, dispatched, halted, priv>>

NoFrame == [type |-> "NONE", qemu |-> FALSE, serial |-> 0, proc |-> "NONE",
            status |-> "NONE", body |-> <<>>, len |-> 0]

NoFds == [evIn |-> FALSE, evOut |-> FALSE]

NoDispatch == [frame |-> NoFrame, got |-> 0]

NoLast == [rv |-> 0, kind |-> "none", id |-> 0, serial |-> 0, mode |-> 0,
           ret |-> <<>>, err |-> <<>>, via |-> "none", data |-> <<>>,
           raised |-> <<>>, quiet |-> FALSE]

(* --------------------------- struct private_data ------------------------ *)
\* priv->saslEncoded with saslEncodedLength and saslEncodedOffset: the
\* ciphertext that sasl_encode made of the frame of call id (c is that call
\* as it was encoded), of which off bytes are written; id = 0 stands for NULL
NoEncoded == [id |-> 0, c |-> <<>>, len |-> 0, off |-> 0]

\* the event ids for which the application registers callbacks
EventIds == {0, 1}

\* the private data of a connection that doRemoteOpen has opened over a
\* transport that is not secure and without authentication.
\*   stage       where the opening thread stands: "new" before doRemoteOpen,
\*               "auth", "sasl", "start", "step", "open" before the RPC of
\*               that name, "ready" after a successful open, "failed" after
\*               a failed one, "closed" after doRemoteClose
\*   types       ret.types of remoteAuthenticate
\*   complete, err, steps   the locals of remoteAuthSASL: what the server
\*               said last, the result of the latest sasl_client_step, and
\*               the number of client steps made
\*   callbacks   per event id, the number of callbacks in
\*               priv->domainEventState->callbacks
\*   wakeupSendFD   whether a write to the wake-up pipe succeeds
\*   sockOpen    priv->sock is a descriptor this process has not closed
\*   freed       VIR_FREE(priv) was done; frees counts them
\* the locals of remoteStreamEventTimer while the user callback runs: the
\* stream and the callback whose cb, cbOpaque and cbFree were copied
NoTimer == [st |-> -1, cb |-> 0]

PrivReady ==
    [stage |-> "ready", localUses |-> 1, is_secure |-> FALSE, saslconn |-> FALSE,
     saslEncoded |-> NoEncoded, authtype |-> "NULL", types |-> <<>>,
     complete |-> FALSE,
     err |-> "NONE", steps |-> 0, ssf |-> 0,
     callbacks |-> [e \in EventIds |-> 0], timer |-> NoTimer,
     eventID |-> [t \in Threads |-> 0], wakeupSendFD |-> TRUE,
     sockOpen |-> TRUE, freed |-> FALSE, frees |-> 0, opens |-> 1, closes |-> 0]

(* ----------------------------- error records --------------------------- *)
\* an optional string of a remote_error: absent (NULL) or a text, the text as
\* the sequence of its words
NullStr == [null |-> TRUE, text |-> <<>>]

Str(text) == [null |-> FALSE, text |-> text]

\* STRPREFIX(a, b): a starts with b
STRPREFIX(a, b) == Len(a) >= Len(b) /\ SubSeq(a, 1, Len(b)) = b

UnknownProcedure == <<"unknown", "procedure">>

\* a remote_error
RemoteError(domain, code, level, message, str1) ==
    [domain |-> domain, code |-> code, level |-> level, message |-> message,
     str1 |-> str1, str2 |-> NullStr, str3 |-> Str(<<"s3">>), int1 |-> 0, int2 |-> -1]

\* the error record with which the server answers in the general scenarios
DefaultError ==
    RemoteError(VIR_FROM_QEMU, VIR_ERR_INTERNAL_ERROR, VIR_ERR_ERROR,
                Str(<<"internal", "error">>), NullStr)

\* the error records of a server in the scenario of the error translation
ErrDomains == {VIR_FROM_XEN, VIR_FROM_QEMU, VIR_FROM_REMOTE, VIR_FROM_NWFILTER}

ErrCodes == {VIR_ERR_INTERNAL_ERROR, VIR_ERR_RPC, VIR_WAR_NO_NWFILTER,
             VIR_ERR_INVALID_NWFILTER, VIR_WAR_NO_SECRET, VIR_ERR_INVALID_SECRET}

ErrLevels == {VIR_ERR_WARNING, VIR_ERR_ERROR}

ErrMessages == {NullStr, Str(<<"unknown", "procedure", "7">>), Str(<<"unknown", "error">>)}

\* every domain with every code, and every level with every message
ErrSet ==
    {RemoteError(d, c, VIR_ERR_ERROR, Str(<<"unknown", "procedure", "7">>), NullStr) :
        d \in ErrDomains, c \in ErrCodes}
    \cup
    {RemoteError(VIR_FROM_REMOTE, VIR_ERR_RPC, l, m, NullStr) :
        l \in ErrLevels, m \in ErrMessages}

\* the body of a frame with status ERROR: error record e, sent in answer to
\* the request with the given serial
ErrorBody(serial, e) == <<[of |-> serial, rec |-> e]>>

(* --------------------------- building calls ----------------------------- *)
\* a struct remote_thread_call as VIR_ALLOC leaves it, with the fields the
\* three builders set
NewCall(t, kind, mode, serial, proc, want, qemu, len) ==
    [owner |-> t, kind |-> kind, mode |-> mode, serial |-> serial,
     proc_nr |-> proc, want_reply |-> want, qemu |-> qemu,
     bufferLength |-> len, bufferOffset |-> 0, ret |-> <<>>, err |-> <<>>,
     signalled |-> FALSE, freed |-> FALSE, quiet |-> FALSE, in_open |-> FALSE,
     arg |-> 0]

\* faulty variant of NextSerial: the counter is read but not incremented
NextSerialSame(c) == c

\* priv->counter++ : the value the counter has after a serial was taken
NextSerial(c) == c + 1

\* prepareCall: mode is left 0 (WAIT_TX) by VIR_ALLOC; header and arguments
\* are serialised after the length word
prepareCall(t, kind, qemu, proc, serial, arglen) ==
    NewCall(t, kind, REMOTE_MODE_WAIT_TX, serial, proc, TRUE, qemu,
            REMOTE_MESSAGE_HEADER_XDR_LEN + HeaderLen + arglen)

\* remoteStreamPacket: a packet of the stream with serial/proc of the stream;
\* a reply is wanted for status OK (finish) and ERROR (abort) only
StreamPacketCall(t, kind, st, n) ==
    NewCall(t, kind, REMOTE_MODE_WAIT_TX, st.serial, st.proc_nr,
            kind \in {"finish", "abort"}, FALSE,
            REMOTE_MESSAGE_HEADER_XDR_LEN + HeaderLen
                + (IF kind = "send" THEN n ELSE 0))

\* remoteStreamRecv: the pseudo-call that skips straight to the RX part
StreamRecvCall(t, st) ==
    NewCall(t, "recv", REMOTE_MODE_WAIT_RX, st.serial, st.proc_nr, TRUE, FALSE, 0)

(* ----------------------------- poll interest ---------------------------- *)
\* faulty variant of PollOutWanted: only the head of the queue is looked at
PollOutWantedHead(q, cs) ==
    q # <<>> /\ cs[q[1]].mode = REMOTE_MODE_WAIT_TX

\* remoteIOEventLoop: fds[0].events from the wait queue and the stream registry
PollOutWanted(q, cs) ==
    \E i \in 1..Len(q) : cs[q[i]].mode = REMOTE_MODE_WAIT_TX

PollInWanted(q, cs, sts) ==
    (\E i \in 1..Len(q) : cs[q[i]].mode = REMOTE_MODE_WAIT_RX) \/ sts # <<>>

PollEvents(q, cs, sts) ==
    [NoFds EXCEPT !.evIn = PollInWanted(q, cs, sts), !.evOut = PollOutWanted(q, cs)]

(* ------------------------------ the server ------------------------------ *)
ReplyLen == REMOTE_MESSAGE_HEADER_XDR_LEN + HeaderLen + 4

\* oks: serials of the streams whose finish the server has confirmed
\* auths: the lists of authentication types with which it may answer AUTH_LIST
\* errs: the error records the server answers with; lens: the lengths of its
\* replies; bad: the frames with a malformed length word that it still sends;
\* splits: the offsets at which the delivery of one of its frames may pause;
\* evSent of the evMax events it has to announce are sent; enabled: the event
\* ids for which it has been asked to send events
NoSrv == [calls |-> {}, fins |-> {}, streams |-> {}, oks |-> {},
          errs |-> {DefaultError}, lens |-> {ReplyLen}, bad |-> {}, splits |-> RxSplits,
          evSent |-> 0, evMax |-> 0, auths |-> {<<>>}, enabled |-> {}]

InSync(w) == \A i \in 1..Len(w) : w[i].n = w[i].len

\* the bytes of call id follow the bytes already written
AppendWire(w, id, c, n) ==
    IF w # <<>> /\ w[Len(w)].id = id
    THEN [w EXCEPT ![Len(w)].n = w[Len(w)].n + n]
    ELSE Append(w, [id |-> id, kind |-> c.kind, serial |-> c.serial, n |-> n,
                    len |-> c.bufferLength])

\* the server has read the complete frame of call c
SrvReceive(sv, c) ==
    CASE c.kind \in PreparedKinds ->
           [sv EXCEPT !.calls = @ \cup {[serial |-> c.serial, proc |-> c.proc_nr,
                                         qemu |-> c.qemu, opens |-> c.kind = "open",
                                         arg |-> c.arg]}]
      [] c.kind \in {"finish", "abort"} ->
           [sv EXCEPT !.fins = @ \cup {[serial |-> c.serial, proc |-> c.proc_nr]}]
      [] OTHER -> sv

Frame(type, qemu, serial, proc, status, body, len) ==
    [type |-> type, qemu |-> qemu, serial |-> serial, proc |-> proc,
     status |-> status, body |-> body, len |-> len]

\* byte number pos of the data the server sends on the stream with serial s
StreamByte(s, pos) == [st |-> s, pos |-> pos]

\* the payload of the k-th data packet (k = 0, 1, ...) of stream s
Payload(s, k) == [i \in 1..DataLen |-> StreamByte(s, k * DataLen + i)]

\* the procedures of the events that processCallDispatchMessage knows
EventProcs == {"DOMAIN_EVENT_LIFECYCLE", "DOMAIN_EVENT_REBOOT"}

\* the results the server may put into the reply to call c: the list of the
\* authentication types for AUTH_LIST, whether the negotiation is complete
\* for AUTH_SASL_START and AUTH_SASL_STEP; every result is marked with the
\* serial of the request it answers
ReplyBodies(sv, c) ==
    CASE c.proc = "AUTH_LIST" -> {<<c.serial, ty>> : ty \in sv.auths}
      [] c.proc \in {"AUTH_SASL_START", "AUTH_SASL_STEP"} ->
           {<<c.serial, complete>> : complete \in BOOLEAN}
      [] OTHER -> {<<c.serial>>}

\* the frames the server may send next, each with the server state after it
\* the event ids enabled on the server after it has carried out call c
ServerEvents(enabled, c) ==
    CASE c.proc = "DOMAIN_EVENTS_REGISTER_ANY" -> enabled \cup {c.arg}
      [] c.proc = "DOMAIN_EVENTS_DEREGISTER_ANY" -> enabled \ {c.arg}
      [] OTHER -> enabled

ServerFrames(sv) ==
    UNION {
      {[f |-> Frame("REPLY", c.qemu, c.serial, c.proc, "OK", body, len),
        sv |-> [sv EXCEPT !.calls = @ \ {c},
                          !.enabled = ServerEvents(@, c),
                          !.streams = IF c.opens
                                      THEN @ \cup {[serial |-> c.serial, proc |-> c.proc,
                                                    sent |-> 0]}
                                      ELSE @]]
          : len \in sv.lens, body \in ReplyBodies(sv, c)}
      : c \in sv.calls}
    \cup
    {[f |-> Frame("MESSAGE", FALSE, 0, proc, "OK", <<sv.evSent + 1>>, ReplyLen),
      sv |-> [sv EXCEPT !.evSent = @ + 1]]
        : proc \in (IF sv.evSent < sv.evMax THEN EventProcs \cup {"NONE"} ELSE {})}
    \cup
    {[f |-> Frame("INVALID", FALSE, 0, "NONE", "NONE", <<>>, len),
      sv |-> [sv EXCEPT !.bad = @ \ {len}]]
        : len \in sv.bad}
    \cup
    {[f |-> Frame("REPLY", c.qemu, c.serial, c.proc, "ERROR", ErrorBody(c.serial, e),
                  ReplyLen),
      sv |-> [sv EXCEPT !.calls = @ \ {c}]]
        : c \in sv.calls, e \in sv.errs}
    \cup
    {[f |-> Frame("STREAM", FALSE, s.serial, s.proc, "CONTINUE",
                  Payload(s.serial, s.sent),
                  REMOTE_MESSAGE_HEADER_XDR_LEN + HeaderLen + DataLen),
      sv |-> [sv EXCEPT !.streams = (@ \ {s}) \cup {[s EXCEPT !.sent = @ + 1]}]]
        : s \in {x \in sv.streams : x.sent < MaxData}}
    \cup
    {[f |-> Frame("STREAM", FALSE, s.serial, s.proc, "ERROR",
                  ErrorBody(s.serial, e), ReplyLen),
      sv |-> [sv EXCEPT !.streams = @ \ {s},
                        !.fins = {x \in @ : x.serial # s.serial}]]
        : s \in sv.streams, e \in sv.errs}
    \cup
    {[f |-> Frame("STREAM", FALSE, x.serial, x.proc, "OK", <<>>,
                  REMOTE_MESSAGE_HEADER_XDR_LEN + HeaderLen),
      sv |-> [sv EXCEPT !.fins = @ \ {x},
                        !.streams = {s \in @ : s.serial # x.serial},
                        !.oks = @ \cup {x.serial}]]
        : x \in sv.fins}

(* --------------------------- write sub-machine -------------------------- *)
\* remoteIOWriteBuffer: bytes accepted by one send(); 0 is EWOULDBLOCK, -1 an error
remoteIOWriteBuffer(len, room, endErr) ==
    IF len = 0 THEN 0
    ELSE IF room > 0 THEN Min(len, room)
    ELSE IF endErr THEN -1 ELSE 0

\* remoteIOWriteMessage (no security wrapper), after a send that returned ret >= 0
remoteIOWriteMessage(c, ret) ==
    LET off == c.bufferOffset + ret IN
    IF off = c.bufferLength
    THEN [c EXCEPT !.bufferOffset = 0, !.bufferLength = 0,
                   !.mode = IF c.want_reply THEN REMOTE_MODE_WAIT_RX
                                            ELSE REMOTE_MODE_COMPLETE]
    ELSE [c EXCEPT !.bufferOffset = off]

\* faulty variant of FirstWaitTx: the newest call in WAIT_TX is written first
LastWaitTx(q, cs, i) ==
    LET S == {k \in i..Len(q) : cs[q[k]].mode = REMOTE_MODE_WAIT_TX} IN
    IF S = {} THEN 0 ELSE CHOOSE k \in S : \A m \in S : m <= k

\* index of the first call of q at or after i that is in WAIT_TX, 0 if none
RECURSIVE FirstWaitTx(_, _, _)
FirstWaitTx(q, cs, i) ==
    IF i > Len(q) THEN 0
    ELSE IF cs[q[i]].mode = REMOTE_MODE_WAIT_TX THEN i
    ELSE FirstWaitTx(q, cs, i + 1)

\* sasl_encode: the length of the ciphertext of n bytes of plaintext, one SASL
\* packet that holds the protected plaintext behind a length word
SaslPacketOverhead == 4

sasl_encode(n) == n + SaslPacketOverhead

\* remoteIOWriteMessage with the security wrapper (priv->saslconn), for call c
\* with the given id: enc is priv->saslEncoded, run the ciphertext that the
\* bytes written belong to.  sasl_encode rejects an empty input.
remoteIOWriteMessageSasl(id, c, enc, room, endErr) ==
    LET fresh == enc.id = 0
        left == c.bufferLength - c.bufferOffset
        e1 == IF fresh THEN [id |-> id, c |-> c, len |-> sasl_encode(left), off |-> 0]
                       ELSE enc
        c1 == IF fresh THEN [c EXCEPT !.bufferOffset = c.bufferLength] ELSE c
        ret == remoteIOWriteBuffer(e1.len - e1.off, room, endErr)
    IN IF fresh /\ left = 0
       THEN [rc |-> -1, c |-> c, enc |-> enc, ret |-> 0, run |-> enc]
       ELSE IF ret < 0
       THEN [rc |-> -1, c |-> c1, enc |-> e1, ret |-> 0, run |-> e1]
       ELSE IF e1.off + ret = e1.len
       THEN [rc |-> 0,
             c |-> [c1 EXCEPT !.mode = IF c.want_reply THEN REMOTE_MODE_WAIT_RX
                                                       ELSE REMOTE_MODE_COMPLETE],
             enc |-> NoEncoded, ret |-> ret, run |-> e1]
       ELSE [rc |-> 0, c |-> c1, enc |-> [e1 EXCEPT !.off = @ + ret], ret |-> ret,
             run |-> e1]

\* the second loop of remoteIOHandleOutput, from the i-th call of the queue;
\* O.sasl is priv->saslconn and O.enc is priv->saslEncoded
RECURSIVE WriteLoop(_, _, _, _)
WriteLoop(q, i, O, endErr) ==
    IF i > Len(q) THEN [O EXCEPT !.rc = 0]
    ELSE IF O.sasl
    THEN
      LET id == q[i]
          M == remoteIOWriteMessageSasl(id, O.calls[id], O.enc, O.room, endErr)
          w2 == IF M.ret > 0
                THEN AppendWire(O.wire, M.run.id,
                                [M.run.c EXCEPT !.bufferLength = M.run.len], M.ret)
                ELSE O.wire
          whole == M.ret > 0 /\ M.run.off + M.ret = M.run.len
          O2 == [O EXCEPT !.calls = [O.calls EXCEPT ![id] = M.c],
                          !.wire = w2,
                          !.srv = IF whole /\ InSync(w2) THEN SrvReceive(O.srv, M.run.c)
                                                         ELSE O.srv,
                          !.room = O.room - M.ret,
                          !.enc = M.enc,
                          !.rc = M.rc]
      IN IF M.rc < 0 \/ M.c.mode = REMOTE_MODE_WAIT_TX THEN O2
         ELSE WriteLoop(q, i + 1, O2, endErr)
    ELSE
      LET id == q[i]
          c == O.calls[id]
          ret == remoteIOWriteBuffer(c.bufferLength - c.bufferOffset, O.room, endErr)
      IN
      IF ret < 0 THEN [O EXCEPT !.rc = -1]
      ELSE
        LET c2 == remoteIOWriteMessage(c, ret)
            w2 == IF ret > 0 THEN AppendWire(O.wire, id, c, ret)
                             ELSE O.wire
            whole == ret > 0 /\ c.bufferOffset + ret = c.bufferLength
            O2 == [O EXCEPT !.calls = [O.calls EXCEPT ![id] = c2],
                            !.wire = w2,
                            !.srv = IF whole /\ InSync(w2) THEN SrvReceive(O.srv, c)
                                                           ELSE O.srv,
                            !.room = O.room - ret,
                            !.rc = 0]
        IN IF c2.mode = REMOTE_MODE_WAIT_TX THEN O2
           ELSE WriteLoop(q, i + 1, O2, endErr)

remoteIOHandleOutput(q, cs, w, sv, pv, room, endErr) ==
    LET O == [calls |-> cs, wire |-> w, srv |-> sv, room |-> room, rc |-> 0,
              sasl |-> pv.saslconn, enc |-> pv.saslEncoded]
        first == FirstWaitTx(q, cs, 1)
    IN IF first = 0 THEN [O EXCEPT !.rc = -1]
       ELSE WriteLoop(q, first, O, endErr)

(* ---------------------- dispatch of an inbound frame -------------------- *)
\* faulty variant of FindCall: the frame goes to the head of the queue
FindCallHead(q, cs, serial) == IF q = <<>> THEN 0 ELSE Head(q)

\* id of the first call of q whose serial is the given one, 0 if none
RECURSIVE FindCall(_, _, _)
FindCall(q, cs, serial) ==
    IF q = <<>> THEN 0
    ELSE IF cs[Head(q)].serial = serial THEN Head(q)
    ELSE FindCall(Tail(q), cs, serial)

\* the walk of processCallDispatchStream over the registry: index of the first
\* stream at which the walk stops, 0 if it runs off the end
RECURSIVE FindStream(_, _, _, _)
FindStream(sts, i, serial, proc) ==
    IF i > Len(sts) THEN 0
    ELSE IF sts[i].serial # serial /\ sts[i].proc_nr # proc
         THEN FindStream(sts, i + 1, serial, proc)
         ELSE i

\* the reply decoder of a call: the pseudo-calls of the stream operations
\* have ret_filter = NULL
HasRetFilter(c) == c.kind \in PreparedKinds

processCallDispatchReply(f, q, cs, sts) ==
    LET id == FindCall(q, cs, f.serial)
        D == [rc |-> -1, calls |-> cs, streams |-> sts, fault |-> FALSE, events |-> <<>>]
    IN
    IF id = 0 THEN D
    ELSE IF f.proc # cs[id].proc_nr THEN D
    ELSE IF f.status = "OK" THEN
           IF ~HasRetFilter(cs[id]) THEN [D EXCEPT !.fault = TRUE]
           ELSE [D EXCEPT !.rc = 0,
                          !.calls = [cs EXCEPT ![id].ret = f.body,
                                               ![id].mode = REMOTE_MODE_COMPLETE]]
    ELSE IF f.status = "ERROR" THEN
           [D EXCEPT !.rc = 0,
                     !.calls = [cs EXCEPT ![id].err = f.body,
                                          ![id].mode = REMOTE_MODE_ERROR]]
    ELSE D

\* remoteStreamEventTimerUpdate: nothing without a callback, otherwise the
\* timeout of cbTimer is set to 0 or to -1
StreamEvents == {"READABLE", "WRITABLE"}

remoteStreamEventTimerUpdate(st) ==
    IF st.cb = 0 THEN st
    ELSE [st EXCEPT !.cbArmed = \/ st.incoming # <<>> /\ "READABLE" \in st.cbEvents
                                \/ "WRITABLE" \in st.cbEvents]

\* a data packet that leaves the timer alone
AsyncDataTimerSkipped(st) == st

\* a data packet that no call waits for: the timer is looked at again
AsyncDataTimer(st) == remoteStreamEventTimerUpdate(st)

processCallDispatchStream(f, q, cs, sts) ==
    LET si == FindStream(sts, 1, f.serial, f.proc)
        id == FindCall(q, cs, f.serial)
        D == [rc |-> -1, calls |-> cs, streams |-> sts, fault |-> FALSE, events |-> <<>>]
    IN
    IF si = 0 THEN D
    ELSE IF f.status = "CONTINUE" THEN
           [D EXCEPT !.rc = 0,
                     !.streams =
                         LET a == [sts EXCEPT ![si].incoming = @ \o f.body] IN
                         IF id # 0 /\ cs[id].want_reply THEN a
                         ELSE [a EXCEPT ![si] = AsyncDataTimer(@)],
                     !.calls = IF id # 0 /\ cs[id].want_reply
                               THEN [cs EXCEPT ![id].mode = REMOTE_MODE_COMPLETE]
                               ELSE cs]
    ELSE IF f.status = "OK" THEN
           IF id = 0 THEN D
           ELSE [D EXCEPT !.rc = 0,
                          !.calls = [cs EXCEPT ![id].mode = REMOTE_MODE_COMPLETE]]
    ELSE IF f.status = "ERROR" THEN
           IF id # 0 /\ cs[id].want_reply
           THEN [D EXCEPT !.rc = 0,
                          !.calls = [cs EXCEPT ![id].err = f.body,
                                               ![id].mode = REMOTE_MODE_ERROR]]
           ELSE IF sts[si].has_error THEN D
           ELSE [D EXCEPT !.rc = 0,
                          !.streams = [sts EXCEPT ![si].has_error = TRUE,
                                                  ![si].err = f.body]]
    ELSE D

\* processCallDispatchMessage: the event of a MESSAGE frame is queued, unless
\* the frame came during the open or its procedure is not one of an event
processCallDispatchMessage(in_open, f, q, cs, sts) ==
    LET D == [rc |-> -1, calls |-> cs, streams |-> sts, fault |-> FALSE, events |-> <<>>]
    IN IF in_open THEN D
       ELSE IF f.proc \notin EventProcs THEN D
       ELSE [D EXCEPT !.rc = 0, !.events = f.body]

\* the flags argument of remoteIO, as far as the dispatch looks at it
Flags(c) == [qemu |-> c.qemu, in_open |-> c.in_open]

NoFlags == [qemu |-> FALSE, in_open |-> FALSE]

\* processCallDispatch: the program of the frame is checked against the flags
\* argument, i.e. the flags of the thread that runs the read sub-machine
processCallDispatch(flags, f, q, cs, sts) ==
    LET D == [rc |-> -1, calls |-> cs, streams |-> sts, fault |-> FALSE, events |-> <<>>]
    IN
    IF f.len - 4 < HeaderLen
    THEN \* xdr_remote_message_header fails on a buffer that ends in the header
         D
    ELSE IF f.qemu # flags.qemu THEN D
    ELSE IF f.type = "REPLY" THEN processCallDispatchReply(f, q, cs, sts)
    ELSE IF f.type = "MESSAGE"
    THEN processCallDispatchMessage(flags.in_open, f, q, cs, sts)
    ELSE IF f.type = "STREAM" THEN processCallDispatchStream(f, q, cs, sts)
    ELSE D

(* ---------------------------- read sub-machine -------------------------- *)
\* what the transport yields during one run of remoteIOHandleInput:
\*   k = "none"  the first read returns EAGAIN (then = "eagain") or fails
\*   k = "data"  bytes of frame pick.f arrive up to offset upto; if the frame is
\*               still incomplete the following read returns EAGAIN or fails
ReadInputs(frame, off, sv, so) ==
    LET thens == IF so = "closed" THEN {"eagain", "err"} ELSE {"eagain"}
        picks == IF frame # NoFrame THEN {[f |-> frame, sv |-> sv]}
                 ELSE IF so = "closed" THEN {}
                 ELSE ServerFrames(sv)
    IN {[k |-> "none", pick |-> [f |-> NoFrame, sv |-> sv], upto |-> 0, then |-> th]
           : th \in thens}
       \cup
       {[k |-> "data", pick |-> p, upto |-> u, then |-> th]
           : p \in picks, u \in sv.splits \cup {BufferSize + 1}, th \in thens}

\* faulty variant of remoteIODecodeMessageLength: no upper bound on the length
DecodeNoUpperBound(len) ==
    IF len < REMOTE_MESSAGE_HEADER_XDR_LEN THEN [rc |-> -1, bufferLength |-> 4]
    ELSE [rc |-> 0, bufferLength |-> 4 + (len - REMOTE_MESSAGE_HEADER_XDR_LEN)]

\* remoteIODecodeMessageLength on a length word that says len, with
\* priv->bufferLength = 4
remoteIODecodeMessageLength(len) ==
    IF len < REMOTE_MESSAGE_HEADER_XDR_LEN THEN [rc |-> -1, bufferLength |-> 4]
    ELSE IF len - REMOTE_MESSAGE_HEADER_XDR_LEN > REMOTE_MESSAGE_MAX
    THEN [rc |-> -1, bufferLength |-> 4]
    ELSE [rc |-> 0, bufferLength |-> 4 + (len - REMOTE_MESSAGE_HEADER_XDR_LEN)]

\* faulty variant of GoalReached: the frame is dispatched once its header is in
GoalReachedAtHeader(off, len) == off >= 4 + HeaderLen

\* remoteIOHandleInput: "check for completion of our goal"
GoalReached(off, len) == off = len

\* the bytes that a frame with length word len takes on the transport
WireSize(len) == IF len < 4 THEN 4 ELSE len

\* remoteIOHandleInput with remoteIOReadMessage: S holds calls, streams, srv,
\* rxFrame, bufferOffset and bufferLength; the result adds rc, fault and the
\* frame that was dispatched
remoteIOHandleInput(S, flags, q, rd) ==
    LET len0 == IF S.bufferLength = 0 THEN 4 ELSE S.bufferLength
        R == [S EXCEPT !.bufferLength = len0]
               @@ [rc |-> 0, fault |-> FALSE, dispatched |-> NoDispatch, events |-> <<>>]
        f == rd.pick.f
        upto == Min(rd.upto, WireSize(f.len))
        thenRc == IF rd.then = "err" THEN -1 ELSE 0
        dec == IF S.bufferOffset < 4 THEN remoteIODecodeMessageLength(f.len)
               ELSE [rc |-> 0, bufferLength |-> S.bufferLength]
        held == [R EXCEPT !.rxFrame = f, !.srv = rd.pick.sv]
    IN
    IF len0 = S.bufferOffset
    THEN \* nothing is wanted: a read of 0 bytes returns 0, taken for end of file
         [R EXCEPT !.rc = -1]
    ELSE IF rd.k = "none" \/ upto <= S.bufferOffset
    THEN [R EXCEPT !.rc = thenRc]
    ELSE IF upto < 4
    THEN [held EXCEPT !.rc = thenRc, !.bufferOffset = upto, !.bufferLength = 4]
    ELSE IF dec.rc < 0 \/ dec.bufferLength = 4
    THEN \* the length word is rejected, or it declares no byte after itself and
         \* the next read is one of 0 bytes
         [held EXCEPT !.rc = -1, !.bufferOffset = 4, !.bufferLength = 4]
    ELSE IF ~GoalReached(upto, dec.bufferLength)
    THEN [held EXCEPT !.rc = thenRc, !.bufferOffset = upto,
                      !.bufferLength = dec.bufferLength]
    ELSE LET D == processCallDispatch(flags, f, q, S.calls, S.streams)
         IN [R EXCEPT !.rc = D.rc, !.fault = D.fault, !.calls = D.calls,
                      !.events = D.events,
                      !.streams = D.streams, !.srv = rd.pick.sv,
                      !.rxFrame = NoFrame, !.bufferOffset = 0, !.bufferLength = 0,
                      !.dispatched = [frame |-> f, got |-> upto]]

(* ----------------------------- stream registry -------------------------- *)
\* cb is 0 (NULL) or the number of the callback that is registered, cbAdded
\* counts the callbacks registered so far and cbFreed, per callback, how often
\* its free function was invoked; cbArmed is a timeout of 0 on cbTimer
NewStream(serial, proc) ==
    [serial |-> serial, proc_nr |-> proc, has_error |-> FALSE, err |-> <<>>,
     incoming |-> <<>>, cb |-> 0, cbEvents |-> {}, cbDispatch |-> FALSE,
     cbArmed |-> FALSE, cbAdded |-> 0, cbFreed |-> <<>>]

\* remoteStreamOpen: the new stream is pushed at the head of the registry
remoteStreamOpen(sts, serial, proc) == <<NewStream(serial, proc)>> \o sts

RECURSIVE StreamIndex(_, _, _)
StreamIndex(sts, i, serial) ==
    IF i > Len(sts) THEN 0
    ELSE IF sts[i].serial = serial THEN i
    ELSE StreamIndex(sts, i + 1, serial)

DropAt(s, i) == SubSeq(s, 1, i - 1) \o SubSeq(s, i + 1, Len(s))

\* remoteStreamRelease: the head is unlinked directly; otherwise the loop looks
\* at tmp->next without ever advancing tmp, so it ends only if the stream is
\* the second entry or the registry has fewer than two entries
remoteStreamRelease(sts, serial) ==
    LET i == StreamIndex(sts, 1, serial) IN
    IF i = 1 THEN [streams |-> Tail(sts), spin |-> FALSE]
    ELSE IF Len(sts) < 2 THEN [streams |-> sts, spin |-> FALSE]
    ELSE IF i = 2 THEN [streams |-> DropAt(sts, 2), spin |-> FALSE]
    ELSE [streams |-> sts, spin |-> TRUE]

(* ------------------------ leaving an operation -------------------------- *)
\* the remote_error in the error slot of call c
ErrorOf(c) == c.err[1].rec

\* faulty variant of Interop: the domain of the error is not looked at
InteropAnyDomain(e) ==
    CASE e.code \in {VIR_ERR_INVALID_NWFILTER, VIR_ERR_NO_NWFILTER, VIR_ERR_BUILD_FIREWALL} ->
           [e EXCEPT !.code = @ + 4]
      [] e.code = VIR_WAR_NO_SECRET -> [e EXCEPT !.code = VIR_ERR_OPERATION_TIMEOUT]
      [] e.code = VIR_ERR_INVALID_SECRET -> [e EXCEPT !.code = VIR_ERR_MIGRATE_PERSIST_FAILED]
      [] OTHER -> e

\* the switch on thiscall->err.code at the cleanup label of remoteIO: error
\* numbers of servers 0.7.1 to 0.7.7 are renumbered
Interop(e) ==
    CASE e.code \in {VIR_ERR_INVALID_NWFILTER, VIR_ERR_NO_NWFILTER, VIR_ERR_BUILD_FIREWALL} ->
           IF e.domain # VIR_FROM_NWFILTER THEN [e EXCEPT !.code = @ + 4] ELSE e
      [] e.code = VIR_WAR_NO_SECRET ->
           IF e.domain = VIR_FROM_QEMU THEN [e EXCEPT !.code = VIR_ERR_OPERATION_TIMEOUT]
           ELSE e
      [] e.code = VIR_ERR_INVALID_SECRET ->
           IF e.domain = VIR_FROM_XEN
           THEN [e EXCEPT !.code = VIR_ERR_MIGRATE_PERSIST_FAILED] ELSE e
      [] OTHER -> e

\* faulty variant of IsUnknownProcedure: the level is not looked at
IsUnknownProcedureAnyLevel(e) ==
    /\ e.domain = VIR_FROM_REMOTE
    /\ e.code = VIR_ERR_RPC
    /\ ~e.message.null
    /\ STRPREFIX(e.message.text, UnknownProcedure)

\* the test for the error with which a server answers a procedure it lacks
IsUnknownProcedure(e) ==
    /\ e.domain = VIR_FROM_REMOTE
    /\ e.code = VIR_ERR_RPC
    /\ e.level = VIR_ERR_ERROR
    /\ ~e.message.null
    /\ STRPREFIX(e.message.text, UnknownProcedure)

\* VIR_FREE(thiscall) after remoteIO returned: the object is gone; if the list
\* still links it, the freed memory stays reachable from priv->waitDispatch
FreeCall(cs, q, id) ==
    IF id \in Range(q) THEN [cs EXCEPT ![id].freed = TRUE]
    ELSE [i \in DOMAIN cs \ {id} |-> cs[i]]

\* remoteIO after the event loop or the wake-up: -1 when the loop failed,
\* otherwise the cleanup label turns the mode of the call into the result
remoteIOResult(c, loopRc) ==
    IF loopRc < 0 THEN -1
    ELSE IF c.mode = REMOTE_MODE_ERROR
    THEN (IF c.quiet /\ IsUnknownProcedure(Interop(ErrorOf(c))) THEN -2 ELSE -1)
    ELSE 0

\* the error that the cleanup label of remoteIO raises with virRaiseErrorFull,
\* <<>> when it raises none
remoteIORaised(c, loopRc) ==
    IF loopRc < 0 \/ c.mode # REMOTE_MODE_ERROR THEN <<>>
    ELSE LET e == Interop(ErrorOf(c)) IN
         IF c.quiet /\ IsUnknownProcedure(e) THEN <<>>
         ELSE IF IsUnknownProcedure(e) THEN <<[e EXCEPT !.code = VIR_ERR_NO_SUPPORT]>>
         ELSE <<[e EXCEPT !.message = IF @.null THEN Str(<<"unknown">>) ELSE @]>>

\* remoteStreamHasError: the error stored on the stream is raised as it is
remoteStreamHasError(st) == IF st.has_error THEN <<st.err[1].rec>> ELSE <<>>

\* the security factors that a negotiation may end with
SSFs == {0, 55, 56, 128}

\* doRemoteOpen at the label failed, and remoteOpen after it: the transport is
\* closed and the private data freed
Failed(pv) ==
    [pv EXCEPT !.stage = "failed", !.sockOpen = FALSE, !.freed = TRUE, !.frees = @ + 1]

\* remoteAuthenticate after the call of AUTH_LIST: the authentication type to
\* run, "FAIL" when there is none; authtype is the type the URI asks for,
\* "NULL" when it asks for none
AuthType(authtype, types) ==
    IF authtype # "NULL"
    THEN LET want == IF authtype = "sasl" THEN "SASL"
                     ELSE IF authtype = "polkit" THEN "POLKIT" ELSE "FAIL"
         IN IF want \in Range(types) THEN want ELSE "FAIL"
    ELSE types[1]

\* faulty variant of SsfTooWeak: a factor of 55 passes
SsfTooWeakBelow55(ssf) == ssf < 55

\* remoteAuthSASL: "56 == DES level, good for Kerberos"
SsfTooWeak(ssf) == ssf < 56

\* faulty variant of NegotiationDone: the word of the server is enough
NegotiationDoneServerOnly(complete, err) == complete

\* the two tests that end the loop of remoteAuthSASL: the latest reply of the
\* server showed completion and the latest client step returned SASL_OK
NegotiationDone(complete, err) == complete /\ err = "SASL_OK"

\* remoteAuthSASL after its loop: the security factor is looked at unless the
\* transport was secure already (sasl_getprop may fail), then the context
\* becomes the wrapper
SaslFinish(pv) ==
    IF ~pv.is_secure
    THEN {Failed(pv)}
         \cup {IF SsfTooWeak(ssf) THEN [Failed(pv) EXCEPT !.ssf = ssf]
                           ELSE [pv EXCEPT !.ssf = ssf, !.is_secure = TRUE,
                                           !.saslconn = TRUE, !.stage = "open"]
                  : ssf \in SSFs}
    ELSE {[pv EXCEPT !.saslconn = TRUE, !.stage = "open"]}

\* faulty variant of AuthListMissing: a missing procedure is an error like
\* any other
AuthListMissingNever(err) == FALSE

\* remoteAuthenticate: "Missing RPC - old server - ignore"
AuthListMissing(err) == err = -2

\* remoteAuthenticate (built with SASL and without PolicyKit) once its call of
\* AUTH_LIST has returned ioRv with the list types
AfterAuthList(pv, types, ioRv) ==
    IF AuthListMissing(ioRv) THEN {[pv EXCEPT !.stage = "open"]}
    ELSE IF ioRv < 0 THEN {Failed(pv)}
    ELSE IF types = <<>> THEN {[pv EXCEPT !.stage = "open"]}
    ELSE LET ty == AuthType(pv.authtype, types)
             p2 == [pv EXCEPT !.types = types]
         IN IF ty = "SASL" THEN {[p2 EXCEPT !.stage = "sasl"]}
            ELSE IF ty = "NONE" THEN {[p2 EXCEPT !.stage = "open"]}
            ELSE {Failed(p2)}

\* remoteAuthSASL once its call of AUTH_SASL_INIT, AUTH_SASL_START or
\* AUTH_SASL_STEP has returned ioRv
AfterSasl(pv, c, ioRv) ==
    IF ioRv # 0 THEN {Failed(pv)}
    ELSE IF c.kind = "sasl_init" THEN {[pv EXCEPT !.stage = "start"]}
    ELSE IF c.kind = "sasl_start"
    THEN {[pv EXCEPT !.complete = c.ret[2], !.stage = "step"]}
    ELSE LET p2 == [pv EXCEPT !.complete = c.ret[2]] IN
         IF NegotiationDone(p2.complete, p2.err) THEN SaslFinish(p2)
         ELSE {[p2 EXCEPT !.stage = "step"]}

\* doRemoteClose once its call of CLOSE has returned ioRv, and remoteClose
\* after it: doRemoteClose returns before it closes anything when the call
\* failed, and remoteClose frees the private data whatever doRemoteClose
\* returned
AfterClose(pv, ioRv) ==
    IF ioRv = -1
    THEN {[pv EXCEPT !.stage = "closed", !.freed = TRUE, !.frees = @ + 1]}
    ELSE {[pv EXCEPT !.stage = "closed", !.saslconn = FALSE,
                     !.sockOpen = FALSE, !.wakeupSendFD = FALSE,
                     !.freed = TRUE, !.frees = @ + 1]}

\* remoteDomainEventRegisterAny once its call of REGISTER_ANY for eventID has
\* returned ioRv: the callback it added is removed again when the call failed
AfterRegister(pv, eventID, ioRv) ==
    IF ioRv = -1 THEN {[pv EXCEPT !.callbacks[eventID] = @ - 1]} ELSE {pv}

\* what the caller of call() does to the private data once call() has
\* returned ioRv for call c
AfterCall(pv, c, ioRv) ==
    CASE c.kind = "auth_list" -> AfterAuthList(pv, c.ret[2], ioRv)
      [] c.kind \in {"sasl_init", "sasl_start", "sasl_step"} -> AfterSasl(pv, c, ioRv)
      [] c.kind = "close" -> AfterClose(pv, ioRv)
      [] c.kind = "register" -> AfterRegister(pv, pv.eventID[c.owner], ioRv)
      [] c.kind = "open_rpc" ->
           IF ioRv = -1 THEN {Failed(pv)}
           ELSE {[pv EXCEPT !.stage = "ready", !.opens = 1]}
      [] OTHER -> {pv}

Outcome(sts, so, h, rv) ==
    [streams |-> sts, stOpen |-> so, halted |-> h, rv |-> rv, data |-> <<>>]

\* remoteStreamRecv returns rv bytes, data, in the buffer of the application
RecvOutcome(sts, so, rv, data) == [Outcome(sts, so, "no", rv) EXCEPT !.data = data]

\* what a read of freed memory yields
Garbage == [st |-> -1, pos |-> 0]

\* remoteStreamRelease on a stream whose private data is still valid
Released(sts, so, serial, rv) ==
    LET r == remoteStreamRelease(sts, serial) IN
    {Outcome(r.streams, so \ {serial}, IF r.spin THEN "spin" ELSE "no", rv)}

\* remoteStreamRelease after another thread released the stream: st->privateData
\* is NULL, the walk spins on a registry of two or more and otherwise the NULL
\* pointer is dereferenced
ReleasedAgain(sts, so, rv) ==
    {Outcome(sts, so, IF Len(sts) >= 2 THEN "spin" ELSE "fault", rv)}

\* remoteStreamRecv after the wait: copy out of the inbound buffer
RecvCopy(sts, serial, n) ==
    LET i == StreamIndex(sts, 1, serial)
        have == Len(sts[i].incoming)
        want == Min(have, n)
    IN [streams |-> [sts EXCEPT ![i] = remoteStreamEventTimerUpdate(
                        [@ EXCEPT !.incoming = SubSeq(@, want + 1, have)])],
        rv |-> want, data |-> SubSeq(sts[i].incoming, 1, want)]

\* what follows remoteIO in call(), the stream-opening call, remoteStreamSend,
\* remoteStreamRecv, remoteStreamFinish and remoteStreamAbort; ioRv is the
\* result of remoteIO, n the size of the receive buffer
Outcomes(c, ioRv, sts, so, n) ==
    LET alive == c.serial \in so IN
    CASE c.kind \in PlainKinds -> {Outcome(sts, so, "no", ioRv)}
      [] c.kind = "open" ->
           IF ioRv = -1 THEN Released(sts, so, c.serial, -1)
           ELSE {Outcome(sts, so \cup {c.serial}, "no", ioRv)}
      [] c.kind = "send" ->
           IF ioRv < 0
           THEN (IF alive THEN Released(sts, so, c.serial, -1)
                          ELSE ReleasedAgain(sts, so, -1))
           ELSE {Outcome(sts, so, "no", DataLen)}
      [] c.kind \in {"finish", "abort"} ->
           LET rv == IF ioRv < 0 THEN -1 ELSE 0 IN
           IF alive THEN Released(sts, so, c.serial, rv)
                    ELSE ReleasedAgain(sts, so, rv)
      [] c.kind = "recv" ->
           IF ioRv < 0
           THEN (IF alive THEN Released(sts, so, c.serial, -1)
                          ELSE ReleasedAgain(sts, so, -1))
           ELSE IF alive
           THEN LET r == RecvCopy(sts, c.serial, n) IN
                {RecvOutcome(r.streams, so, r.rv, r.data)}
           ELSE {Outcome(sts, so, "fault", 0)}
                \cup {RecvOutcome(sts, so, k, [i \in 1..k |-> Garbage]) : k \in 0..n}

\* the bytes handed to the application are counted per stream
Delivered(serial, data) ==
    IF data = <<>> THEN delivered
    ELSE [delivered EXCEPT ![serial] = @ + Len(data)]

\* thread t returns from the operation that owns call id; pv is the private
\* data at the return of remoteIO
ReturnFrom(t, id, ioRv, via, cs, q, sts, pv) ==
    \E o \in Outcomes(cs[id], ioRv, sts, stOpen, nbytes[t]),
       p2 \in AfterCall(pv, cs[id], ioRv) :
        /\ priv' = p2
        /\ calls' = FreeCall(cs, q, id)
        /\ streams' = o.streams
        /\ stOpen' = o.stOpen
        /\ halted' = o.halted
        /\ pc' = [pc EXCEPT ![t] = IF o.halted = "no" THEN "idle" ELSE "halt"]
        /\ cur' = [cur EXCEPT ![t] = 0]
        /\ fds' = [fds EXCEPT ![t] = NoFds]
        /\ nbytes' = [nbytes EXCEPT ![t] = 0]
        /\ last' = [rv |-> o.rv, kind |-> cs[id].kind, id |-> id,
                    serial |-> cs[id].serial, mode |-> cs[id].mode,
                    ret |-> cs[id].ret, err |-> cs[id].err, via |-> via,
                    data |-> o.data,
                    raised |-> remoteIORaised(cs[id], IF via = "cleanup" THEN 0 ELSE -1),
                    quiet |-> cs[id].quiet]
        /\ delivered' = Delivered(cs[id].serial, o.data)

(* ---------------------------- entering remoteIO ------------------------- *)
\* the walk of remoteIO to the tail of the list: it reaches the tail, or, when
\* the list links a freed call object, it may also read garbage and fault
TailWalks(q, cs) ==
    {"tail"} \cup (IF \E i \in 1..Len(q) : cs[q[i]].freed THEN {"fault"} ELSE {})

\* faulty variant of WakeupSent: no byte is written to the wake-up pipe
WakeupNotSent(n) == n

\* "force other thread to wakeup from poll": safewrite of one byte to
\* priv->wakeupSendFD; n is the number of bytes in the pipe
WakeupSent(n) == n + 1

\* remoteIO up to the wait or the event loop, for the new call c with id;
\* cs are the call objects, sts the registry and pv the private data at that
\* point
Enter(t, id, c, sts, pv) ==
    LET cs == (id :> c) @@ calls IN
    /\ priv' = pv
    /\ cur' = [cur EXCEPT ![t] = id]
    /\ IF waitDispatch # <<>>
       THEN \E walk \in TailWalks(waitDispatch, calls) :
              IF walk = "tail"
              THEN /\ pv.wakeupSendFD
                   /\ waitDispatch' = Append(waitDispatch, id)
                   /\ wakeBytes' = WakeupSent(wakeBytes)
                   /\ calls' = cs
                   /\ pc' = [pc EXCEPT ![t] = "sleep"]
                   /\ fds' = fds
                   /\ halted' = halted
              ELSE /\ halted' = "fault"
                   /\ pc' = [pc EXCEPT ![t] = "halt"]
                   /\ calls' = cs
                   /\ UNCHANGED <<waitDispatch, wakeBytes, fds>>
       ELSE /\ waitDispatch' = <<id>>
            /\ wakeBytes' = wakeBytes
            /\ calls' = cs
            /\ pc' = [pc EXCEPT ![t] = "poll"]
            /\ fds' = [fds EXCEPT ![t] = PollEvents(<<id>>, cs, sts)]
            /\ halted' = halted

\* a thread that is not inside an operation and may start one; idle threads
\* hold no state of their own, so the lowest-numbered one stands for them all
Ready(t) ==
    /\ halted = "no" /\ pc[t] = "idle"
    /\ \A u \in Threads : pc[u] = "idle" => t <= u

\* call(): prepareCall and remoteIO
Call(t, qemu, quiet) ==
    /\ dispatched' = NoDispatch
    /\ UNCHANGED <<eventQueue, notified>>
    /\ Ready(t)
    /\ \E al \in ArgLens :
         Enter(t, nextId,
               [prepareCall(t, "call", qemu,
                            IF qemu THEN "QEMU_MONITOR_COMMAND" ELSE "GET_TYPE",
                            counter, al) EXCEPT !.quiet = quiet],
               streams, priv)
    /\ counter' = NextSerial(counter)
    /\ nextId' = nextId + 1
    /\ last' = NoLast
    /\ UNCHANGED <<streams, stOpen, bufferOffset, bufferLength, rxFrame, nbytes,
                   wire, srv, sock, delivered>>

\* a call that returns a stream (remoteDomainMigratePrepareTunnel3):
\* remoteStreamOpen with priv->counter, then call()
OpenStream(t) ==
    /\ dispatched' = NoDispatch
    /\ UNCHANGED <<eventQueue, notified>>
    /\ Ready(t)
    /\ LET sts == remoteStreamOpen(streams, counter, "PREPARE_TUNNEL3") IN
       /\ \E al \in ArgLens :
            Enter(t, nextId,
                  prepareCall(t, "open", FALSE, "PREPARE_TUNNEL3", counter, al), sts,
                  priv)
       /\ streams' = sts
    /\ counter' = NextSerial(counter)
    /\ nextId' = nextId + 1
    /\ last' = NoLast
    /\ delivered' = (counter :> 0) @@ delivered
    /\ UNCHANGED <<stOpen, bufferOffset, bufferLength, rxFrame, nbytes,
                   wire, srv, sock>>

\* a step of the thread inside doRemoteOpen that makes no call: the private
\* data becomes pv.  The thread that opens the connection is the only one
\* that knows it.
PrivStep(t, pv) ==
    /\ Ready(t)
    /\ priv' = pv
    /\ last' = NoLast
    /\ dispatched' = NoDispatch
    /\ UNCHANGED <<counter, nextId, calls, waitDispatch, streams, stOpen,
                   bufferOffset, bufferLength, rxFrame, wakeBytes, pc, cur, fds,
                   nbytes, wire, srv, sock, delivered, eventQueue, notified, halted>>

\* no other thread uses the connection that doRemoteOpen is still building
Alone == \A u \in Threads : pc[u] = "idle"

LocalStep(t, pv) == Alone /\ PrivStep(t, pv)

\* a call() without arguments made by an operation that works on the private
\* data; pv is the private data at the call
PrivCall(t, kind, proc, quiet, in_open, pv) ==
    /\ dispatched' = NoDispatch
    /\ UNCHANGED <<eventQueue, notified>>
    /\ Ready(t)
    /\ Enter(t, nextId,
             [prepareCall(t, kind, FALSE, proc, counter, 0)
                 EXCEPT !.quiet = quiet, !.in_open = in_open,
                        !.arg = pv.eventID[t]],
             streams, pv)
    /\ counter' = NextSerial(counter)
    /\ nextId' = nextId + 1
    /\ last' = NoLast
    /\ UNCHANGED <<streams, stOpen, bufferOffset, bufferLength, rxFrame, nbytes,
                   wire, srv, sock, delivered>>

\* a call() of doRemoteOpen, remoteAuthenticate or remoteAuthSASL, made with
\* REMOTE_CALL_IN_OPEN
OpenCall(t, kind, proc, quiet, pv) == Alone /\ PrivCall(t, kind, proc, quiet, TRUE, pv)

\* what sasl_client_start and sasl_client_step return once the credentials
\* they ask for (SASL_INTERACT) have been collected; "SASL_FAIL" stands for
\* every other result and for credentials that cannot be collected
SaslResults == {"SASL_OK", "SASL_CONTINUE", "SASL_FAIL"}

\* remoteAuthenticate up to its call of AUTH_LIST
remoteAuthenticate(t) ==
    /\ priv.stage = "auth"
    /\ OpenCall(t, "auth_list", "AUTH_LIST", TRUE, priv)

\* remoteAuthSASL up to its call of AUTH_SASL_INIT; setting up the library
\* and the client context may fail
remoteAuthSASL(t) ==
    /\ priv.stage = "sasl"
    /\ \E ok \in BOOLEAN :
         IF ok THEN OpenCall(t, "sasl_init", "AUTH_SASL_INIT", FALSE, priv)
               ELSE LocalStep(t, Failed(priv))

\* remoteAuthSASL from the label restart to its call of AUTH_SASL_START
remoteAuthSASLStart(t) ==
    /\ priv.stage = "start"
    /\ \E err \in SaslResults :
         IF err = "SASL_FAIL" THEN LocalStep(t, Failed(priv))
         ELSE OpenCall(t, "sasl_start", "AUTH_SASL_START", FALSE, priv)

\* one pass of the loop of remoteAuthSASL, from sasl_client_step to the call
\* of AUTH_SASL_STEP or to the end of the function
remoteAuthSASLStep(t) ==
    /\ priv.stage = "step" /\ priv.steps < MaxSaslSteps
    /\ \E err \in SaslResults :
         LET p1 == [priv EXCEPT !.err = err, !.steps = @ + 1] IN
         IF err = "SASL_FAIL" THEN LocalStep(t, Failed(p1))
         ELSE IF NegotiationDone(p1.complete, err)
         THEN \E p2 \in SaslFinish(p1) : LocalStep(t, p2)
         ELSE OpenCall(t, "sasl_step", "AUTH_SASL_STEP", FALSE, p1)

\* doRemoteOpen after remoteAuthenticate: "finally we can call the remote
\* side's open function"
doRemoteOpen(t) ==
    /\ priv.stage = "open"
    /\ OpenCall(t, "open_rpc", "OPEN", FALSE, priv)

\* call() whose remoteIO links the call behind the others and then fails to
\* write the byte to the wake-up pipe: remoteIO returns -1 at once and call()
\* frees the call object
CallWakeupFails(t) ==
    /\ Ready(t) /\ waitDispatch # <<>> /\ ~priv.wakeupSendFD
    /\ LET id == nextId
           c == prepareCall(t, "call", FALSE, "GET_TYPE", counter, 0)
           cs == (id :> c) @@ calls
       IN \E walk \in TailWalks(waitDispatch, calls) :
            IF walk = "tail"
            THEN /\ waitDispatch' = Append(waitDispatch, id)
                 /\ ReturnFrom(t, id, -1, "wake_error", cs, waitDispatch', streams, priv)
            ELSE /\ halted' = "fault"
                 /\ pc' = [pc EXCEPT ![t] = "halt"]
                 /\ calls' = cs
                 /\ cur' = [cur EXCEPT ![t] = id]
                 /\ last' = NoLast
                 /\ UNCHANGED <<waitDispatch, streams, stOpen, fds, nbytes,
                                delivered, priv>>
    /\ counter' = NextSerial(counter)
    /\ nextId' = nextId + 1
    /\ dispatched' = NoDispatch
    /\ UNCHANGED <<bufferOffset, bufferLength, rxFrame, wakeBytes, wire, srv, sock,
                   eventQueue, notified>>

\* the write end of the wake-up pipe stops taking bytes (the descriptor was
\* closed or the read end is gone)
WakeupPipeBreaks ==
    /\ halted = "no" /\ priv.wakeupSendFD /\ ~priv.freed
    /\ priv' = [priv EXCEPT !.wakeupSendFD = FALSE]
    /\ last' = NoLast
    /\ dispatched' = NoDispatch
    /\ UNCHANGED <<counter, nextId, calls, waitDispatch, streams, stOpen,
                   bufferOffset, bufferLength, rxFrame, wakeBytes, pc, cur, fds,
                   nbytes, wire, srv, sock, delivered, eventQueue, notified, halted>>

\* remoteGenericOpen of a secondary driver on a connection that the remote
\* driver holds already: one more use of the private data
remoteGenericOpen(t) ==
    /\ priv.stage = "ready" /\ ~priv.freed
    /\ priv.localUses > 0 /\ priv.opens < MaxOpens
    /\ PrivStep(t, [priv EXCEPT !.localUses = @ + 1, !.opens = @ + 1])

\* remoteClose and remoteGenericClose: one use less, and doRemoteClose up to
\* its call of CLOSE when it was the last; every holder closes once
remoteClose(t) ==
    /\ priv.stage = "ready" /\ ~priv.freed
    /\ priv.localUses > 0 /\ priv.closes < priv.opens
    /\ LET pv == [priv EXCEPT !.localUses = @ - 1, !.closes = @ + 1] IN
       IF pv.localUses = 0 THEN PrivCall(t, "close", "CLOSE", FALSE, FALSE, pv)
       ELSE PrivStep(t, pv)

\* faulty variant of FirstCallback: every registration enables
FirstCallbackOrLater(count) == count >= 1

\* remoteDomainEventRegisterAny: "if this is the first callback for this
\* eventID, we need to enable events on the server"
FirstCallback(count) == count = 1

\* faulty variant of LastCallback: the last but one disables as well
LastCallbackOrOneLeft(count) == count <= 1

\* remoteDomainEventDeregisterAny: "if that was the last callback for this
\* eventID, we need to disable events on the server"
LastCallback(count) == count = 0

\* the registrations for eventID that have not returned yet: the application
\* does not have their callbackID
Registering(eventID) ==
    Cardinality({u \in Threads : /\ pc[u] # "idle" /\ cur[u] \in DOMAIN calls
                                  /\ calls[cur[u]].kind = "register"
                                  /\ priv.eventID[u] = eventID})

\* remoteDomainEventRegisterAny: the callback is added, then the call of
\* REGISTER_ANY is made if it is the only one for eventID
remoteDomainEventRegisterAny(t, eventID) ==
    /\ priv.stage = "ready" /\ ~priv.freed
    /\ priv.callbacks[eventID] < MaxCallbacks
    /\ LET pv == [priv EXCEPT !.callbacks[eventID] = @ + 1, !.eventID[t] = eventID] IN
       IF FirstCallback(pv.callbacks[eventID])
       THEN PrivCall(t, "register", "DOMAIN_EVENTS_REGISTER_ANY", FALSE, FALSE, pv)
       ELSE PrivStep(t, pv)

\* remoteDomainEventDeregisterAny with the callbackID of a callback for
\* eventID: the callback is removed, then the call of DEREGISTER_ANY is made
\* if none is left for eventID
remoteDomainEventDeregisterAny(t, eventID) ==
    /\ priv.stage = "ready" /\ ~priv.freed
    /\ priv.callbacks[eventID] > Registering(eventID)
    /\ LET pv == [priv EXCEPT !.callbacks[eventID] = @ - 1, !.eventID[t] = eventID] IN
       IF LastCallback(pv.callbacks[eventID])
       THEN PrivCall(t, "deregister", "DOMAIN_EVENTS_DEREGISTER_ANY", FALSE, FALSE, pv)
       ELSE PrivStep(t, pv)

\* a thread that was inside remoteIO when the private data was freed comes
\* back from poll() or virCondWait and takes the destroyed mutex of the freed
\* structure: the process may fault there (when it does not, the thread runs
\* on with what the freed memory holds, EventLoopBody and Wake)
AfterFree(t) ==
    /\ halted = "no" /\ priv.freed /\ pc[t] \in {"poll", "sleep"}
    /\ halted' = "fault"
    /\ pc' = [pc EXCEPT ![t] = "halt"]
    /\ last' = NoLast
    /\ dispatched' = NoDispatch
    /\ UNCHANGED <<counter, nextId, calls, waitDispatch, streams, stOpen,
                   bufferOffset, bufferLength, rxFrame, wakeBytes, cur, fds,
                   nbytes, wire, srv, sock, delivered, eventQueue, notified, priv>>

\* an operation on a stream that ends before any call is built
ReturnAtOnce(t, kind, serial, o) ==
    /\ streams' = o.streams
    /\ stOpen' = o.stOpen
    /\ halted' = o.halted
    /\ pc' = [pc EXCEPT ![t] = IF o.halted = "no" THEN "idle" ELSE "halt"]
    /\ last' = [rv |-> o.rv, kind |-> kind, id |-> 0, serial |-> serial,
                mode |-> 0, ret |-> <<>>, err |-> <<>>, via |-> "direct",
                data |-> o.data,
                raised |-> remoteStreamHasError(streams[StreamIndex(streams, 1, serial)]),
                quiet |-> FALSE]
    /\ delivered' = Delivered(serial, o.data)
    /\ UNCHANGED <<counter, nextId, calls, waitDispatch, bufferOffset, bufferLength,
                   rxFrame, wakeBytes, cur, fds, nbytes, wire, srv, sock, priv>>

\* remoteStreamSend (kind "send") and remoteStreamFinish; remoteStreamAbort is
\* remoteStreamFinish with status ERROR in the packet instead of OK
StreamPacket(t, serial, kind) ==
    /\ dispatched' = NoDispatch
    /\ UNCHANGED <<eventQueue, notified>>
    /\ Ready(t)
    /\ serial \in stOpen
    /\ LET st == streams[StreamIndex(streams, 1, serial)] IN
       IF st.has_error
       THEN \* remoteStreamHasError: the stored error is raised, the stream released
            \E o \in Released(streams, stOpen, serial, -1) :
                ReturnAtOnce(t, kind, serial, o)
       ELSE /\ Enter(t, nextId, StreamPacketCall(t, kind, st, DataLen), streams, priv)
            /\ nextId' = nextId + 1
            /\ last' = NoLast
            /\ UNCHANGED <<counter, streams, stOpen, bufferOffset, bufferLength,
                           rxFrame, nbytes, wire, srv, sock, delivered>>

\* remoteStreamRecv with a buffer of n bytes
StreamRecv(t, serial, n, nonblock) ==
    /\ dispatched' = NoDispatch
    /\ UNCHANGED <<eventQueue, notified>>
    /\ Ready(t)
    /\ serial \in stOpen
    /\ LET st == streams[StreamIndex(streams, 1, serial)] IN
       IF st.has_error
       THEN \E o \in Released(streams, stOpen, serial, -1) :
                ReturnAtOnce(t, "recv", serial, o)
       ELSE IF st.incoming # <<>>
       THEN LET r == RecvCopy(streams, serial, n) IN
            ReturnAtOnce(t, "recv", serial, RecvOutcome(r.streams, stOpen, r.rv, r.data))
       ELSE IF nonblock
       THEN ReturnAtOnce(t, "recv", serial, Outcome(streams, stOpen, "no", -2))
       ELSE /\ Enter(t, nextId, StreamRecvCall(t, st), streams, priv)
            /\ nextId' = nextId + 1
            /\ nbytes' = [nbytes EXCEPT ![t] = n]
            /\ last' = NoLast
            /\ UNCHANGED <<counter, streams, stOpen, bufferOffset, bufferLength,
                           rxFrame, wire, srv, sock, delivered>>

(* ------------------------------ event loop ------------------------------ *)
\* the transport has something to read
CanRead == sock = "closed" \/ rxFrame # NoFrame \/ ServerFrames(srv) # {}

\* faulty variant of Sweep: every other queued call is signalled as well
SweepAll(q, cs, this) ==
    [q |-> SelectSeq(q, LAMBDA x : x = this \/ ~Terminal(cs[x].mode)),
     calls |-> [x \in DOMAIN cs |->
                  IF x # this /\ x \in Range(q) THEN [cs[x] EXCEPT !.signalled = TRUE]
                  ELSE cs[x]]]

\* the sweep of remoteIOEventLoop: every terminal call other than thiscall is
\* unlinked and its condition variable signalled
Sweep(q, cs, this) ==
    LET gone == {i \in 1..Len(q) : q[i] # this /\ Terminal(cs[q[i]].mode)} IN
    [q |-> SelectSeq(q, LAMBDA x : x = this \/ ~Terminal(cs[x].mode)),
     calls |-> [x \in DOMAIN cs |->
                  IF \E i \in gone : q[i] = x THEN [cs[x] EXCEPT !.signalled = TRUE]
                  ELSE cs[x]]]

\* the two exits of remoteIOEventLoop: priv->waitDispatch = thiscall->next, and
\* the condition variable of the new head, if any, is signalled
PassTheBuck(q, cs, this) ==
    LET q2 == After(q, this) IN
    [q |-> q2,
     calls |-> IF q2 # <<>> THEN [cs EXCEPT ![Head(q2)].signalled = TRUE] ELSE cs]

NoRead == [k |-> "none", pick |-> [f |-> NoFrame, sv |-> NoSrv], upto |-> 0,
           then |-> "eagain"]

\* what poll() may report to a dispatcher that asked for ev: an error with
\* no revents, or every event that is ready.  A descriptor that is reported
\* but yields nothing is covered by a send that accepts no byte and a read
\* that returns EAGAIN.
PollResults(ev) ==
    {[wake |-> FALSE, out |-> FALSE, in |-> FALSE, hup |-> FALSE, fail |-> TRUE]}
    \cup
    {r \in {[wake |-> wakeBytes > 0, out |-> ev.evOut, in |-> ev.evIn /\ CanRead,
             hup |-> h, fail |-> FALSE]
               : h \in (IF sock = "closed" THEN BOOLEAN ELSE {FALSE})} :
        r.wake \/ r.out \/ r.in \/ r.hup}

\* one iteration of the loop of remoteIOEventLoop: poll() returns r, the mutex
\* is taken again, and the code runs to the next poll() or to the return of
\* the operation
EventLoopBody(t) ==
    /\ halted = "no" /\ pc[t] = "poll"
    /\ LET id == cur[t] IN
       \E r \in PollResults(fds[t]) :
       \E room \in (IF r.out THEN Rooms ELSE {0}),
          endErr \in (IF r.out /\ sock = "closed" THEN BOOLEAN ELSE {FALSE}),
          rd \in (IF r.in THEN ReadInputs(rxFrame, bufferOffset, srv, sock)
                          ELSE {NoRead}) :
         \E O \in {IF r.out
                   THEN remoteIOHandleOutput(waitDispatch, calls, wire, srv, priv,
                                             room, endErr)
                   ELSE [calls |-> calls, wire |-> wire, srv |-> srv, room |-> 0,
                         rc |-> 0, sasl |-> priv.saslconn,
                         enc |-> priv.saslEncoded]} :
         \E pv \in {[priv EXCEPT !.saslEncoded = O.enc]} :
         \E I \in {IF r.in /\ O.rc = 0
                   THEN remoteIOHandleInput(
                            [calls |-> O.calls, streams |-> streams, srv |-> O.srv,
                             rxFrame |-> rxFrame, bufferOffset |-> bufferOffset,
                             bufferLength |-> bufferLength],
                            Flags(calls[id]), waitDispatch, rd)
                   ELSE [calls |-> O.calls, streams |-> streams, srv |-> O.srv,
                         rxFrame |-> rxFrame, bufferOffset |-> bufferOffset,
                         bufferLength |-> bufferLength, rc |-> 0, fault |-> FALSE,
                         dispatched |-> NoDispatch, events |-> <<>>]} :
         \E failed \in {r.fail \/ O.rc < 0 \/ I.rc < 0} :
         \E ownDone \in {~failed /\ Terminal(I.calls[id].mode)} :
         \E leave \in {failed \/ ownDone \/ r.hup} :
         \E W \in {IF failed THEN [q |-> waitDispatch, calls |-> I.calls]
                   ELSE Sweep(waitDispatch, I.calls, id)} :
         \E P \in {IF leave THEN PassTheBuck(W.q, W.calls, id) ELSE W} :
         /\ wakeBytes' = IF r.wake THEN wakeBytes - 1 ELSE wakeBytes
         /\ wire' = O.wire
         /\ srv' = I.srv
         /\ rxFrame' = I.rxFrame
         /\ bufferOffset' = I.bufferOffset
         /\ bufferLength' = I.bufferLength
         /\ dispatched' = I.dispatched
         /\ eventQueue' = eventQueue \o I.events
         /\ notified' = notified
         /\ waitDispatch' = P.q
         /\ IF I.fault
            THEN /\ halted' = "fault"
                 /\ pc' = [pc EXCEPT ![t] = "halt"]
                 /\ calls' = P.calls
                 /\ streams' = I.streams
                 /\ last' = NoLast
                 /\ priv' = pv
                 /\ UNCHANGED <<stOpen, cur, fds, nbytes, delivered>>
            ELSE IF leave
            THEN ReturnFrom(t, id,
                            remoteIOResult(P.calls[id], IF ownDone THEN 0 ELSE -1),
                            IF ownDone THEN "cleanup" ELSE "loop_error",
                            P.calls, P.q, I.streams, pv)
            ELSE /\ calls' = P.calls
                 /\ priv' = pv
                 /\ streams' = I.streams
                 /\ pc' = pc
                 /\ fds' = [fds EXCEPT ![t] = PollEvents(P.q, P.calls, I.streams)]
                 /\ last' = NoLast
                 /\ UNCHANGED <<stOpen, cur, nbytes, halted, delivered>>
    /\ UNCHANGED <<counter, nextId, sock>>

\* virCondWait returns in a thread whose condition variable was signalled
Wake(t) ==
    /\ dispatched' = NoDispatch
    /\ UNCHANGED <<eventQueue, notified>>
    /\ halted = "no" /\ pc[t] = "sleep"
    /\ calls[cur[t]].signalled
    /\ LET id == cur[t] IN
       IF Terminal(calls[id].mode)
       THEN /\ ReturnFrom(t, id, remoteIOResult(calls[id], 0), "cleanup",
                          calls, waitDispatch, streams, priv)
            /\ UNCHANGED waitDispatch
       ELSE /\ calls' = [calls EXCEPT ![id].signalled = FALSE]
            /\ priv' = priv
            /\ pc' = [pc EXCEPT ![t] = "poll"]
            /\ fds' = [fds EXCEPT ![t] = PollEvents(waitDispatch, calls, streams)]
            /\ last' = NoLast
            /\ UNCHANGED <<waitDispatch, streams, stOpen, cur, nbytes, halted,
                           delivered>>
    /\ UNCHANGED <<counter, nextId, bufferOffset, bufferLength, rxFrame, wakeBytes,
                   wire, srv, sock>>

\* remoteDomainEventFired: the watch of the embedder's event loop reads the
\* transport while no call is queued
\* a watch callback that reads whatever is queued
WatchMayReadAlways == TRUE

\* remoteDomainEventFired goes on to read only when no call is queued
WatchMayRead == waitDispatch = <<>>

EventFired ==
    /\ halted = "no" /\ WatchMayRead /\ sock = "open"
    /\ priv.timer = NoTimer
    /\ \E rd \in ReadInputs(rxFrame, bufferOffset, srv, sock) :
         /\ rd.k = "data"
         /\ LET S == [calls |-> calls, streams |-> streams, srv |-> srv,
                      rxFrame |-> rxFrame, bufferOffset |-> bufferOffset,
                      bufferLength |-> bufferLength]
                I == remoteIOHandleInput(S, NoFlags, waitDispatch, rd)
            IN /\ calls' = I.calls
               /\ streams' = I.streams
               /\ srv' = I.srv
               /\ rxFrame' = I.rxFrame
               /\ bufferOffset' = I.bufferOffset
               /\ bufferLength' = I.bufferLength
               /\ dispatched' = I.dispatched
               /\ eventQueue' = eventQueue \o I.events
               /\ notified' = notified
               /\ halted' = IF I.fault THEN "fault" ELSE halted
    /\ last' = NoLast
    /\ UNCHANGED <<counter, nextId, waitDispatch, stOpen, wakeBytes, pc, cur, fds,
                   nbytes, wire, sock, delivered, priv>>

\* the server closes the transport
ServerClose ==
    /\ dispatched' = NoDispatch
    /\ UNCHANGED <<eventQueue, notified>>
    /\ halted = "no" /\ sock = "open"
    /\ sock' = "closed"
    /\ last' = NoLast
    /\ UNCHANGED <<counter, nextId, calls, waitDispatch, streams, stOpen,
                   bufferOffset, bufferLength, rxFrame, wakeBytes, pc, cur, fds,
                   nbytes, wire, srv, delivered, halted, priv>>

\* remoteDomainEventQueueFlush, the timer that virDomainEventStateQueue arms:
\* the queued events are handed to the callbacks of the application
remoteDomainEventQueueFlush ==
    /\ halted = "no" /\ eventQueue # <<>>
    /\ notified' = notified \o eventQueue
    /\ eventQueue' = <<>>
    /\ last' = NoLast
    /\ dispatched' = NoDispatch
    /\ UNCHANGED <<counter, nextId, calls, waitDispatch, streams, stOpen,
                   bufferOffset, bufferLength, rxFrame, wakeBytes, pc, cur, fds,
                   nbytes, wire, srv, sock, delivered, halted, priv>>

(* ----------------------------- specification ---------------------------- *)
Init ==
    /\ counter = 0
    /\ nextId = 1
    /\ calls = <<>>
    /\ waitDispatch = <<>>
    /\ streams = <<>>
    /\ stOpen = {}
    /\ bufferOffset = 0
    /\ bufferLength = 0
    /\ rxFrame = NoFrame
    /\ wakeBytes = 0
    /\ pc = [t \in Threads |-> "idle"]
    /\ cur = [t \in Threads |-> 0]
    /\ fds = [t \in Threads |-> NoFds]
    /\ nbytes = [t \in Threads |-> 0]
    /\ last = NoLast
    /\ wire = <<>>
    /\ srv = NoSrv
    /\ sock = "open"
    /\ delivered = <<>>
    /\ eventQueue = <<>>
    /\ notified = <<>>
    /\ dispatched = NoDispatch
    /\ halted = "no"
    /\ priv = PrivReady

\* the application may start another operation that allocates a call object
MayCall == nextId <= MaxCalls

Next ==
    \/ MayCall /\ \E t \in Threads, qemu \in BOOLEAN : Call(t, qemu, FALSE)
    \/ MayCall /\ Len(streams) < MaxStreams /\ \E t \in Threads : OpenStream(t)
    \/ MayCall /\ \E t \in Threads, s \in stOpen, k \in {"send", "finish"} :
          StreamPacket(t, s, k)
    \/ MayCall /\ \E t \in Threads, s \in stOpen, n \in RecvSizes, nb \in BOOLEAN :
          StreamRecv(t, s, n, nb)
    \/ \E t \in Threads : EventLoopBody(t)
    \/ \E t \in Threads : Wake(t)
    \/ EventFired
    \/ ServerClose

Spec == Init /\ [][Next]_vars

\* an application that first opens a stream, then makes plain calls and sends
\* on the stream, and starts nothing new once the server has closed the
\* transport
MaySend == nextId <= MaxCallsSend /\ sock = "open"

NextSend ==
    \/ MaySend /\ \E t \in Threads : Call(t, FALSE, FALSE)
    \/ MaySend /\ nextId = 1 /\ \E t \in Threads : OpenStream(t)
    \/ MaySend /\ \E t \in Threads, s \in stOpen : StreamPacket(t, s, "send")
    \/ \E t \in Threads : EventLoopBody(t)
    \/ \E t \in Threads : Wake(t)
    \/ ServerClose

SpecSend == Init /\ [][NextSend]_vars

\* an application that opens streams, one after the other or together, and
\* receives from them
MayWide == nextId <= MaxCallsWide

NextStreams ==
    \/ MayWide /\ Len(streams) < MaxStreamsWide /\ \E t \in Threads : OpenStream(t)
    \/ MayWide /\ \E t \in Threads, s \in stOpen, n \in RecvSizes, nb \in BOOLEAN :
          StreamRecv(t, s, n, nb)
    \/ \E t \in Threads : EventLoopBody(t)
    \/ \E t \in Threads : Wake(t)
    \/ EventFired

SpecStreams == Init /\ [][NextStreams]_vars

\* an application that makes plain calls, with and without the flag
\* REMOTE_CALL_QUIET_MISSING_RPC, to a server that answers with any error
\* record of ErrSet
InitErr ==
    /\ counter = 0
    /\ nextId = 1
    /\ calls = <<>>
    /\ waitDispatch = <<>>
    /\ streams = <<>>
    /\ stOpen = {}
    /\ bufferOffset = 0
    /\ bufferLength = 0
    /\ rxFrame = NoFrame
    /\ wakeBytes = 0
    /\ pc = [t \in Threads |-> "idle"]
    /\ cur = [t \in Threads |-> 0]
    /\ fds = [t \in Threads |-> NoFds]
    /\ nbytes = [t \in Threads |-> 0]
    /\ last = NoLast
    /\ wire = <<>>
    /\ srv = [NoSrv EXCEPT !.errs = ErrSet]
    /\ sock = "open"
    /\ delivered = <<>>
    /\ eventQueue = <<>>
    /\ notified = <<>>
    /\ dispatched = NoDispatch
    /\ halted = "no"
    /\ priv = PrivReady

MayErr == nextId <= MaxCallsErr

NextErr ==
    \/ MayErr /\ \E t \in Threads, quiet \in BOOLEAN : Call(t, FALSE, quiet)
    \/ \E t \in Threads : EventLoopBody(t)
    \/ \E t \in Threads : Wake(t)

SpecErr == InitErr /\ [][NextErr]_vars

\* a server whose frames arrive in pieces, whose replies are short or fill the
\* frame buffer, and that also sends frames with a malformed length word
BadLens == {2, 4, 12, BufferSize + 1}

FrameSplits == {2, 4, 4 + HeaderLen}

InitFrames ==
    /\ counter = 0
    /\ nextId = 1
    /\ calls = <<>>
    /\ waitDispatch = <<>>
    /\ streams = <<>>
    /\ stOpen = {}
    /\ bufferOffset = 0
    /\ bufferLength = 0
    /\ rxFrame = NoFrame
    /\ wakeBytes = 0
    /\ pc = [t \in Threads |-> "idle"]
    /\ cur = [t \in Threads |-> 0]
    /\ fds = [t \in Threads |-> NoFds]
    /\ nbytes = [t \in Threads |-> 0]
    /\ last = NoLast
    /\ wire = <<>>
    /\ srv = [NoSrv EXCEPT !.lens = {ReplyLen, BufferSize}, !.bad = BadLens,
                           !.splits = FrameSplits, !.evMax = 1]
    /\ sock = "open"
    /\ delivered = <<>>
    /\ eventQueue = <<>>
    /\ notified = <<>>
    /\ dispatched = NoDispatch
    /\ halted = "no"
    /\ priv = PrivReady

MayFrames == nextId <= MaxCallsFrames

NextFrames ==
    \/ MayFrames /\ \E t \in Threads : Call(t, FALSE, FALSE)
    \/ MayFrames /\ Len(streams) < MaxStreams /\ \E t \in Threads : OpenStream(t)
    \/ \E t \in Threads : EventLoopBody(t)
    \/ \E t \in Threads : Wake(t)
    \/ EventFired

SpecFrames == InitFrames /\ [][NextFrames]_vars

\* an application that makes calls of both programs while the server
\* announces events
InitEvents ==
    /\ counter = 0
    /\ nextId = 1
    /\ calls = <<>>
    /\ waitDispatch = <<>>
    /\ streams = <<>>
    /\ stOpen = {}
    /\ bufferOffset = 0
    /\ bufferLength = 0
    /\ rxFrame = NoFrame
    /\ wakeBytes = 0
    /\ pc = [t \in Threads |-> "idle"]
    /\ cur = [t \in Threads |-> 0]
    /\ fds = [t \in Threads |-> NoFds]
    /\ nbytes = [t \in Threads |-> 0]
    /\ last = NoLast
    /\ wire = <<>>
    /\ srv = [NoSrv EXCEPT !.evMax = MaxEvents]
    /\ sock = "open"
    /\ delivered = <<>>
    /\ eventQueue = <<>>
    /\ notified = <<>>
    /\ dispatched = NoDispatch
    /\ halted = "no"
    /\ priv = PrivReady

MayEvents == nextId <= MaxCallsEvents

NextEvents ==
    \/ MayEvents /\ \E t \in Threads, qemu \in BOOLEAN : Call(t, qemu, FALSE)
    \/ \E t \in Threads : EventLoopBody(t)
    \/ \E t \in Threads : Wake(t)
    \/ EventFired
    \/ remoteDomainEventQueueFlush

SpecEvents == InitEvents /\ [][NextEvents]_vars

\* a thread opens the connection: over a transport that is secure or not,
\* with a URI that asks for SASL or for no authentication type, to a server
\* that has the procedure AUTH_LIST or lacks it.  No other thread knows the
\* connection before doRemoteOpen has returned.  Each frame of the server
\* arrives whole.
UnknownProcedureError ==
    RemoteError(VIR_FROM_REMOTE, VIR_ERR_RPC, VIR_ERR_ERROR,
                Str(<<"unknown", "procedure", "7">>), NullStr)

AuthLists == {<<>>, <<"NONE">>, <<"SASL">>, <<"POLKIT", "SASL">>}

InitAuth ==
    /\ counter = 0
    /\ nextId = 1
    /\ calls = <<>>
    /\ waitDispatch = <<>>
    /\ streams = <<>>
    /\ stOpen = {}
    /\ bufferOffset = 0
    /\ bufferLength = 0
    /\ rxFrame = NoFrame
    /\ wakeBytes = 0
    /\ pc = [t \in Threads |-> "idle"]
    /\ cur = [t \in Threads |-> 0]
    /\ fds = [t \in Threads |-> NoFds]
    /\ nbytes = [t \in Threads |-> 0]
    /\ last = NoLast
    /\ wire = <<>>
    /\ srv = [NoSrv EXCEPT !.errs = {DefaultError, UnknownProcedureError},
                           !.auths = AuthLists, !.splits = {}]
    /\ sock = "open"
    /\ delivered = <<>>
    /\ eventQueue = <<>>
    /\ notified = <<>>
    /\ dispatched = NoDispatch
    /\ halted = "no"
    /\ \E secure \in BOOLEAN, authtype \in {"NULL", "sasl"} :
         priv = [PrivReady EXCEPT !.stage = "auth", !.opens = 0,
                                  !.is_secure = secure, !.authtype = authtype]

NextAuth ==
    \/ \E t \in Threads : remoteAuthenticate(t)
    \/ \E t \in Threads : remoteAuthSASL(t)
    \/ \E t \in Threads : remoteAuthSASLStart(t)
    \/ \E t \in Threads : remoteAuthSASLStep(t)
    \/ \E t \in Threads : doRemoteOpen(t)
    \/ \E t \in Threads : EventLoopBody(t)

SpecAuth == InitAuth /\ [][NextAuth]_vars

(* -------------------------------- claims -------------------------------- *)
Dispatchers == {t \in Threads : pc[t] = "poll"}

Linked(id) == id \in Range(waitDispatch)

\* err is the body of an ERROR frame sent in answer to the given serial
AnswersSerial(err, serial) == err # <<>> /\ err[1].of = serial

\* a frame that prepareCall built
IsCallFrame(run) == run.kind \in PreparedKinds

C2_ReplyRouting ==
    /\ \A id \in DOMAIN calls :
         LET c == calls[id] IN
         /\ c.ret \in {<<>>, <<c.serial>>}
         /\ c.err = <<>> \/ AnswersSerial(c.err, c.serial)
         /\ (HasRetFilter(c) /\ c.mode = REMOTE_MODE_COMPLETE) => c.ret = <<c.serial>>
         /\ (HasRetFilter(c) /\ c.mode = REMOTE_MODE_ERROR)
               => AnswersSerial(c.err, c.serial)
    /\ last.ret \in {<<>>, <<last.serial>>}
    /\ last.err = <<>> \/ AnswersSerial(last.err, last.serial)
    /\ (last.kind \in {"call", "open"} /\ last.via = "cleanup") =>
         \/ last.rv = 0 /\ last.mode = REMOTE_MODE_COMPLETE /\ last.ret = <<last.serial>>
         \/ /\ last.rv = -1 /\ last.mode = REMOTE_MODE_ERROR
            /\ AnswersSerial(last.err, last.serial)

\* C2 happens: the replies arrived in the other order; the call enqueued later
\* holds its own result while the call enqueued before it still waits
C2_Witness ==
    \E a, b \in DOMAIN calls :
        /\ a < b /\ calls[a].kind = "call" /\ calls[b].kind = "call"
        /\ Linked(a) /\ calls[a].mode = REMOTE_MODE_WAIT_RX
        /\ ~Linked(b) /\ calls[b].mode = REMOTE_MODE_COMPLETE
        /\ calls[b].ret = <<calls[b].serial>>

\* C3: when, on an open transport, the dispatcher reads to its end the reply
\* to a queued call of another thread that is in WAIT_RX, that call becomes
\* terminal, is unlinked and signalled, and the dispatcher stays in the event
\* loop unless its own call is done
C3_Step ==
    \A c \in srv.calls \ srv'.calls :
      \A d \in Dispatchers :
        \A id \in Range(waitDispatch) \ {cur[d]} :
          ( /\ sock = "open" /\ rxFrame' = NoFrame /\ halted' = "no"
            /\ ~calls[id].freed
            /\ calls[id].serial = c.serial
            /\ calls[id].mode = REMOTE_MODE_WAIT_RX )
          => /\ id \notin Range(waitDispatch')
             /\ Terminal(calls'[id].mode)
             /\ calls'[id].signalled
             /\ pc'[d] = "poll" \/ last'.via = "cleanup"

C3_OtherReplyFirst == [][C3_Step]_vars

\* C4: while the process runs there is no state in which waitDispatch is not
\* empty, no thread is dispatching and no owner of a call has been signalled
C4_NoOrphanQueue ==
    (halted = "no" /\ waitDispatch # <<>>) =>
        \/ Dispatchers # {}
        \/ \E t \in Threads : pc[t] = "sleep" /\ calls[cur[t]].signalled

C6_Step ==
    \A id \in DOMAIN calls \cap DOMAIN calls' :
        (calls[id].want_reply /\ calls[id].mode = REMOTE_MODE_WAIT_TX)
            => ~Terminal(calls'[id].mode)

C6_ModeOrder == [][C6_Step]_vars

\* C7: the serials of the calls built by prepareCall are all below the counter
\* and pairwise different, and the frames of such calls on the wire carry
\* pairwise different serials
C7_DistinctSerials ==
    /\ \A id \in DOMAIN calls : HasRetFilter(calls[id]) => calls[id].serial < counter
    /\ \A a, b \in DOMAIN calls :
         (a # b /\ HasRetFilter(calls[a]) /\ HasRetFilter(calls[b]))
           => calls[a].serial # calls[b].serial
    /\ \A i, j \in 1..Len(wire) :
         (i # j /\ IsCallFrame(wire[i]) /\ IsCallFrame(wire[j]))
           => wire[i].serial # wire[j].serial

\* C7 happens: two threads had calls queued together and both frames are on
\* the wire
C7_Witness ==
    /\ \E i, j \in 1..Len(wire) : i # j /\ IsCallFrame(wire[i]) /\ IsCallFrame(wire[j])
    /\ \E a, b \in DOMAIN calls :
         /\ a # b /\ Linked(a) /\ Linked(b) /\ calls[a].owner # calls[b].owner
         /\ HasRetFilter(calls[a]) /\ HasRetFilter(calls[b])
         /\ calls[a].mode = REMOTE_MODE_WAIT_RX /\ calls[b].mode = REMOTE_MODE_WAIT_RX

\* C8: waitDispatch never holds two calls with the same serial that are both
\* in WAIT_RX
C8_OneWaitRxPerSerial ==
    \A i, j \in 1..Len(waitDispatch) :
        LET a == calls[waitDispatch[i]]
            b == calls[waitDispatch[j]]
        IN (i < j /\ ~a.freed /\ ~b.freed /\ a.serial = b.serial)
             => ~(a.mode = REMOTE_MODE_WAIT_RX /\ b.mode = REMOTE_MODE_WAIT_RX)

\* C9: when a thread has left the event loop by its error exit, every call
\* that is in waitDispatch is in ERROR and signalled
C9_ErrorCancelsAll ==
    last.via = "loop_error" =>
        \A i \in 1..Len(waitDispatch) :
            /\ calls[waitDispatch[i]].mode = REMOTE_MODE_ERROR
            /\ calls[waitDispatch[i]].signalled

\* C10: once the server has closed the transport, no caller that was queued
\* stays blocked for ever: whenever a thread sleeps on its condition variable,
\* some thread is dispatching or some sleeping thread has been signalled
C10_NobodyStranded ==
    (halted = "no" /\ sock = "closed" /\ \E t \in Threads : pc[t] = "sleep") =>
        \/ Dispatchers # {}
        \/ \E t \in Threads : pc[t] = "sleep" /\ calls[cur[t]].signalled

\* C11: the bytes that a receive returns are the bytes of its stream that
\* follow, in the order of arrival, the bytes returned by the receives before it
C11_StreamOrder ==
    (last.kind = "recv" /\ last.rv > 0) =>
        last.data = [i \in 1..last.rv |->
                       StreamByte(last.serial, delivered[last.serial] - last.rv + i)]

\* C12: the inbound buffer and the stored error of a registered stream hold
\* only what came in frames that bear the serial of that stream
C12_StreamMatch ==
    \A i \in 1..Len(streams) :
        /\ \A k \in 1..Len(streams[i].incoming) :
               streams[i].incoming[k].st = streams[i].serial
        /\ streams[i].err = <<>> \/ AnswersSerial(streams[i].err, streams[i].serial)

\* C13: a finish returns success only when its packet is complete on the wire,
\* the server has sent the STREAM frame with status OK for its stream, and that
\* frame has been read to its end
C13_FinishAfterOk ==
    (last.kind = "finish" /\ last.rv = 0) =>
        /\ \E i \in 1..Len(wire) : wire[i].id = last.id /\ wire[i].n = wire[i].len
        /\ last.serial \in srv.oks
        /\ ~(rxFrame.type = "STREAM" /\ rxFrame.status = "OK"
               /\ rxFrame.serial = last.serial)

\* C14: (a) when a STREAM frame with status ERROR has been read to its end
\* while its stream is registered without a stored error and no queued call of
\* its serial expects a reply, the stream has the error of that frame stored;
\* (b) an operation on a stream with a stored error builds no call, returns -1
\* at once with exactly the stored error raised, and leaves the queue and the
\* wire as they were
C14_Step ==
    /\ (rxFrame.type = "STREAM" /\ rxFrame.status = "ERROR" /\ rxFrame' = NoFrame) =>
          LET i == StreamIndex(streams, 1, rxFrame.serial)
              j == StreamIndex(streams', 1, rxFrame.serial)
          IN ( /\ i # 0 /\ j # 0
               /\ ~streams[i].has_error
               /\ ~\E k \in 1..Len(waitDispatch) :
                      /\ calls[waitDispatch[k]].serial = rxFrame.serial
                      /\ calls[waitDispatch[k]].want_reply )
             => streams'[j].has_error /\ streams'[j].err = rxFrame.body
    /\ \A i \in 1..Len(streams) :
          (streams[i].has_error /\ streams[i].serial \in stOpen) =>
             /\ ~( /\ nextId' # nextId
                   /\ calls'[nextId].kind \in {"send", "recv", "finish", "abort"}
                   /\ calls'[nextId].serial = streams[i].serial )
             /\ (last'.via = "direct" /\ last'.serial = streams[i].serial) =>
                   /\ last'.rv = -1
                   /\ last'.raised = <<streams[i].err[1].rec>>
                   /\ wire' = wire /\ waitDispatch' = waitDispatch /\ nextId' = nextId

C14_StoredStreamError == [][C14_Step]_vars

\* the error record that the reply to the call which just returned carried
ReplyError == last.err[1].rec

\* the error with which a server answers a procedure it does not have
Canonical(e) ==
    /\ e.domain = VIR_FROM_REMOTE /\ e.code = VIR_ERR_RPC /\ e.level = VIR_ERR_ERROR
    /\ e.message \in {Str(<<"unknown", "procedure", "7">>)}

\* a call() returned after its reply with status ERROR was dispatched
ErrorReturn ==
    last.kind = "call" /\ last.via = "cleanup" /\ last.mode = REMOTE_MODE_ERROR

\* C15: a call that ends in ERROR with the unknown-procedure error returns -2
\* and raises nothing when it was made with the quiet flag, returns -1 and
\* raises an error when it was made without; with any other error it returns
\* -1, flag or no flag
C15_QuietMissing ==
    ErrorReturn =>
        IF Canonical(ReplyError)
        THEN IF last.quiet THEN last.rv = -2 /\ last.raised = <<>>
                           ELSE last.rv = -1 /\ last.raised # <<>>
        ELSE last.rv = -1

\* C15 happens: a call made with the quiet flag got the unknown-procedure
\* error and returned -2
C15_Witness == ErrorReturn /\ last.quiet /\ Canonical(ReplyError) /\ last.rv = -2

RaisedCode(e) ==
    IF Canonical(e) THEN VIR_ERR_NO_SUPPORT
    ELSE IF e.code = VIR_ERR_INVALID_NWFILTER /\ e.domain # VIR_FROM_NWFILTER
    THEN VIR_ERR_INVALID_SECRET
    ELSE IF e.code = VIR_WAR_NO_SECRET /\ e.domain = VIR_FROM_QEMU
    THEN VIR_ERR_OPERATION_TIMEOUT
    ELSE IF e.code = VIR_ERR_INVALID_SECRET /\ e.domain = VIR_FROM_XEN
    THEN VIR_ERR_MIGRATE_PERSIST_FAILED
    ELSE e.code

BecomesTerminal(id) ==
    /\ calls[id].want_reply /\ ~Terminal(calls[id].mode)
    /\ \/ id \in DOMAIN calls' /\ Terminal(calls'[id].mode)
       \/ id \notin DOMAIN calls' /\ last'.id = id /\ Terminal(last'.mode)

\* the step put something into the inbound buffer or the error slot of a
\* registered stream
StreamFed ==
    \E i \in 1..Len(streams), j \in 1..Len(streams') :
        /\ streams[i].serial = streams'[j].serial
        /\ \/ Len(streams'[j].incoming) > Len(streams[i].incoming)
           \/ streams'[j].has_error /\ ~streams[i].has_error

\* the step queued an event
EventQueued == Len(eventQueue') > Len(eventQueue)

\* C17: (a) a frame is handed to the dispatch only when all the bytes that its
\* length word declares are in the buffer, however the transport split them;
\* (b) no call becomes terminal, no stream is fed and no event is queued in a
\* step that dispatched no frame; (c) a partly assembled frame stays in the buffer, with no byte
\* lost, until it is dispatched; (d) the thread that takes over the dispatcher
\* role finds the buffer as it was left
C17_Step ==
    /\ dispatched' # NoDispatch =>
          /\ dispatched'.got = dispatched'.frame.len
          /\ dispatched'.got > 4
          /\ rxFrame \in {NoFrame, dispatched'.frame}
    /\ ((\E id \in DOMAIN calls : BecomesTerminal(id)) \/ StreamFed \/ EventQueued) =>
          dispatched' # NoDispatch
    /\ rxFrame # NoFrame =>
          \/ /\ rxFrame' = rxFrame
             /\ bufferOffset' >= bufferOffset /\ bufferLength' >= bufferLength
          \/ /\ dispatched'.frame = rxFrame
             /\ rxFrame' = NoFrame /\ bufferOffset' = 0 /\ bufferLength' = 0
    /\ \A t \in Threads :
          (pc[t] = "sleep" /\ pc'[t] = "poll") =>
              /\ rxFrame' = rxFrame
              /\ bufferOffset' = bufferOffset /\ bufferLength' = bufferLength

C17_Framing == [][C17_Step]_vars

\* C17 happens: the dispatcher has left while a frame is partly assembled, and
\* the role is on its way to the next thread of the queue
C17_Witness ==
    /\ halted = "no" /\ Dispatchers = {} /\ waitDispatch # <<>>
    /\ rxFrame # NoFrame /\ 4 < bufferOffset /\ bufferOffset < bufferLength

\* the length word of a frame that cannot hold a header or does not fit the
\* buffer
BadLength(len) == len < 4 + HeaderLen \/ len > BufferSize

\* the step read the last byte of the length word of the frame now held
LengthWordRead == rxFrame' # NoFrame /\ bufferOffset < 4 /\ bufferOffset' >= 4

\* C18: the frame buffer never holds more than 4 + REMOTE_MESSAGE_MAX bytes;
\* a step that reads bytes of a frame whose length word is below the size of
\* length word and header or above 4 + REMOTE_MESSAGE_MAX makes no call
\* terminal, feeds no stream and queues no event, and when it reads the end of the length word
\* or of the frame, the dispatcher leaves the event loop with an error
C18_Step ==
    /\ bufferLength' <= BufferSize
    /\ \A f \in {dispatched'.frame, rxFrame'} :
          (f # NoFrame /\ BadLength(f.len)) =>
             /\ ~\E id \in DOMAIN calls : BecomesTerminal(id)
             /\ ~StreamFed
             /\ ~EventQueued
             /\ (waitDispatch # <<>>
                   /\ (dispatched' # NoDispatch
                         \/ (LengthWordRead /\ (f.len <= 4 \/ f.len > BufferSize))))
                  => last'.via = "loop_error" /\ last'.rv = -1

C18_BadLength == [][C18_Step]_vars

\* C18 happens: the length word of a frame larger than the buffer was read and
\* rejected
C18_Witness ==
    /\ rxFrame.len > BufferSize /\ bufferOffset = 4 /\ bufferLength = 4
    /\ last.via = "loop_error"

\* C19: when a REPLY is handed to the dispatch and the call it is routed to,
\* the first queued call with its serial, waits for a reply of that program
\* and procedure, then the call becomes terminal, whatever program the call of
\* the dispatching thread belongs to
C19_Step ==
    dispatched'.frame.type = "REPLY" =>
        LET f == dispatched'.frame
            id == FindCall(waitDispatch, calls, f.serial)
        IN ( /\ id # 0
             /\ ~calls[id].freed
             /\ HasRetFilter(calls[id])
             /\ calls[id].mode = REMOTE_MODE_WAIT_RX
             /\ calls[id].qemu = f.qemu
             /\ calls[id].proc_nr = f.proc )
           => BecomesTerminal(id)

C19_ReplyProgram == [][C19_Step]_vars

\* C20: (a) when a MESSAGE frame with the procedure of an event is handed to
\* the dispatch, its event is appended to the event queue and no call that
\* waits for a reply becomes terminal; (b) the events queued and handed over
\* are in the order in which the server sent them; (c) events are handed to
\* the callbacks only in a step of the flush timer, in which no frame is
\* dispatched and no thread moves
C20_Step ==
    /\ (dispatched'.frame.type = "MESSAGE" /\ dispatched'.frame.proc \in EventProcs) =>
          /\ eventQueue' = eventQueue \o dispatched'.frame.body
          /\ ~\E id \in DOMAIN calls : BecomesTerminal(id)
    /\ LET all == notified' \o eventQueue' IN
          \A i, j \in 1..Len(all) : i < j => all[i] < all[j]
    /\ notified' # notified =>
          /\ notified' = notified \o eventQueue /\ eventQueue' = <<>>
          /\ dispatched' = NoDispatch
          /\ pc' = pc /\ calls' = calls /\ waitDispatch' = waitDispatch

C20_Events == [][C20_Step]_vars

(* ------------------- uses of the connection and its close --------------- *)
MayCallClose ==
    /\ priv.stage = "ready" /\ ~priv.freed /\ priv.localUses > 0
    /\ nextId <= MaxCallsClose

NextClose ==
    \/ \E t \in Threads : remoteGenericOpen(t)
    \/ \E t \in Threads : remoteClose(t)
    \/ MayCallClose /\ \E t \in Threads : Call(t, FALSE, FALSE)
    \/ \E t \in Threads : EventLoopBody(t)
    \/ \E t \in Threads : Wake(t)
    \/ \E t \in Threads : AfterFree(t)

SpecClose == Init /\ [][NextClose]_vars

\* a thread inside remoteIO runs on when poll() or virCondWait returns
InsideStep(t) == EventLoopBody(t) \/ Wake(t) \/ AfterFree(t)

SpecCloseFair == SpecClose /\ \A t \in Threads : WF_vars(InsideStep(t))

(* ------------------- registration of event callbacks ------------------- *)
MayCallReg == nextId <= MaxCallsReg

NextReg ==
    \/ MayCallReg /\ \E t \in Threads, e \in EventIds :
                        remoteDomainEventRegisterAny(t, e)
    \/ MayCallReg /\ \E t \in Threads, e \in EventIds :
                        remoteDomainEventDeregisterAny(t, e)
    \/ \E t \in Threads : EventLoopBody(t)
    \/ \E t \in Threads : Wake(t)

SpecReg == Init /\ [][NextReg]_vars

(* --------------------------- the wake-up pipe --------------------------- *)
MayCallWake == nextId <= MaxCallsWake

NextWake ==
    \/ MayCallWake /\ \E t \in Threads : Call(t, FALSE, FALSE)
    \/ MayCallWake /\ \E t \in Threads : CallWakeupFails(t)
    \/ WakeupPipeBreaks
    \/ \E t \in Threads : EventLoopBody(t)
    \/ \E t \in Threads : Wake(t)

SpecWake == Init /\ [][NextWake]_vars

(* ------------------------- progress of the loop ------------------------- *)
MayCallLive == nextId <= MaxCallsLive

NextLive ==
    \/ MayCallLive /\ \E t \in Threads : Call(t, FALSE, FALSE)
    \/ \E t \in Threads : EventLoopBody(t)
    \/ \E t \in Threads : Wake(t)

\* poll() of dispatcher t has something to report that does not depend on
\* the server: a byte in the wake-up pipe, or room in the transport that it
\* asked for
PollReady(t) == pc[t] = "poll" /\ (wakeBytes > 0 \/ (fds[t].evOut /\ sock = "open"))

\* a dispatcher whose poll() has something to report runs, and so does a
\* thread whose condition variable was signalled; nothing is assumed about
\* the server or about what the kernel reports
SpecLive ==
    /\ Init /\ [][NextLive]_vars
    /\ \A t \in Threads : WF_vars(PollReady(t) /\ EventLoopBody(t))
    /\ \A t \in Threads : WF_vars(Wake(t))

(* ------------------------- the security wrapper ------------------------- *)
\* the connection after an open that ended with remoteAuthSASL: the SASL
\* context is the wrapper of everything that is written; the frames of the
\* server are taken to arrive decoded and whole
InitSasl ==
    /\ counter = 0
    /\ nextId = 1
    /\ calls = <<>>
    /\ waitDispatch = <<>>
    /\ streams = <<>>
    /\ stOpen = {}
    /\ bufferOffset = 0
    /\ bufferLength = 0
    /\ rxFrame = NoFrame
    /\ wakeBytes = 0
    /\ pc = [t \in Threads |-> "idle"]
    /\ cur = [t \in Threads |-> 0]
    /\ fds = [t \in Threads |-> NoFds]
    /\ nbytes = [t \in Threads |-> 0]
    /\ last = NoLast
    /\ wire = <<>>
    /\ srv = [NoSrv EXCEPT !.splits = {}]
    /\ sock = "open"
    /\ delivered = <<>>
    /\ eventQueue = <<>>
    /\ notified = <<>>
    /\ dispatched = NoDispatch
    /\ halted = "no"
    /\ priv = [PrivReady EXCEPT !.saslconn = TRUE, !.is_secure = TRUE,
                                !.types = <<"SASL">>, !.complete = TRUE,
                                !.err = "SASL_OK", !.steps = 1, !.ssf = 56]

MayCallSasl == nextId <= MaxCallsSasl

NextSasl ==
    \/ MayCallSasl /\ \E t \in Threads : Call(t, FALSE, FALSE)
    \/ \E t \in Threads : EventLoopBody(t)
    \/ \E t \in Threads : Wake(t)

SpecSasl == InitSasl /\ [][NextSasl]_vars

(* --------------------------- the poll interest -------------------------- *)
MayCallPoll == nextId <= MaxCallsPoll

NextPoll ==
    \/ MayCallPoll /\ \E t \in Threads : Call(t, FALSE, FALSE)
    \/ MayCallPoll /\ Len(streams) < MaxStreamsPoll /\ \E t \in Threads : OpenStream(t)
    \/ MayCallPoll /\ \E t \in Threads, s \in stOpen, n \in RecvSizes, nb \in BOOLEAN :
          StreamRecv(t, s, n, nb)
    \/ \E t \in Threads : EventLoopBody(t)
    \/ \E t \in Threads : Wake(t)

SpecPoll == Init /\ [][NextPoll]_vars

(* ------------------------ a failed condition wait ----------------------- *)
\* the walk that would cut the list at the call instead of bridging over it
remoteIOUnlinkCuts(q, id) ==
    LET i == IndexOf(q, id) IN
    IF i = 0 THEN q ELSE SubSeq(q, 1, i - 1)

\* the list after remoteIO has taken thiscall out of it: the head is replaced
\* by its successor, otherwise the predecessor is looked for and linked to the
\* successor; a call that is not in the list leaves the list as it is
remoteIOUnlink(q, id) ==
    LET i == IndexOf(q, id) IN
    IF i = 0 THEN q ELSE SubSeq(q, 1, i - 1) \o SubSeq(q, i + 1, Len(q))

\* virCondWait of a sleeping caller returns an error: the call is unlinked
\* and remoteIO returns -1 without looking at the mode of the call
CondWaitFails(t) ==
    /\ halted = "no" /\ pc[t] = "sleep"
    /\ LET id == cur[t]
           q == remoteIOUnlink(waitDispatch, id)
       IN /\ waitDispatch' = q
          /\ ReturnFrom(t, id, -1, "wait_error", calls, q, streams, priv)
    /\ dispatched' = NoDispatch
    /\ UNCHANGED <<counter, nextId, bufferOffset, bufferLength, rxFrame, wakeBytes,
                   wire, srv, sock, eventQueue, notified>>

NextCondWait ==
    \/ MayCallLive /\ \E t \in Threads : Call(t, FALSE, FALSE)
    \/ \E t \in Threads : EventLoopBody(t)
    \/ \E t \in Threads : Wake(t)
    \/ \E t \in Threads : CondWaitFails(t)

SpecCondWait == Init /\ [][NextCondWait]_vars

(* --------------------------- stream callbacks --------------------------- *)
\* an operation on the callback of a stream: it takes the mutex, changes the
\* private data of the stream to st and returns
CallbackOp(t, i, st) ==
    /\ Ready(t)
    /\ streams' = [streams EXCEPT ![i] = st]
    /\ last' = NoLast
    /\ dispatched' = NoDispatch
    /\ UNCHANGED <<counter, nextId, calls, waitDispatch, stOpen, bufferOffset,
                   bufferLength, rxFrame, wakeBytes, pc, cur, fds, nbytes, wire, srv,
                   sock, delivered, eventQueue, notified, halted, priv>>

remoteStreamEventAddCallback(t, serial, events) ==
    LET i == StreamIndex(streams, 1, serial)
        st == streams[i]
    IN /\ serial \in stOpen /\ i # 0
       /\ st.cb = 0 /\ st.cbAdded < MaxStreamCallbacks
       /\ CallbackOp(t, i, remoteStreamEventTimerUpdate(
                              [st EXCEPT !.cb = st.cbAdded + 1,
                                         !.cbAdded = st.cbAdded + 1,
                                         !.cbFreed = Append(@, 0),
                                         !.cbEvents = events]))

remoteStreamEventUpdateCallback(t, serial, events) ==
    LET i == StreamIndex(streams, 1, serial)
        st == streams[i]
    IN /\ serial \in stOpen /\ i # 0
       /\ st.cb # 0
       /\ CallbackOp(t, i, remoteStreamEventTimerUpdate([st EXCEPT !.cbEvents = events]))

\* the free function is invoked here unless a dispatch is under way; the
\* timer is removed
remoteStreamEventRemoveCallback(t, serial) ==
    LET i == StreamIndex(streams, 1, serial)
        st == streams[i]
    IN /\ serial \in stOpen /\ i # 0
       /\ st.cb # 0
       /\ CallbackOp(t, i, [st EXCEPT !.cbFreed[st.cb] = IF st.cbDispatch THEN @ ELSE @ + 1,
                                      !.cb = 0, !.cbEvents = {}, !.cbArmed = FALSE])

\* the events that remoteStreamEventTimer reports to the callback
TimerEvents(st) ==
    {e \in {"READABLE"} : st.cb # 0 /\ e \in st.cbEvents /\ st.incoming # <<>>}
    \cup {e \in {"WRITABLE"} : st.cb # 0 /\ e \in st.cbEvents}

\* remoteStreamEventTimer up to the call of the user callback: the mutex is
\* released with cbDispatch set
remoteStreamEventTimer(serial) ==
    LET i == StreamIndex(streams, 1, serial)
        st == streams[i]
    IN /\ halted = "no" /\ priv.timer = NoTimer
       /\ i # 0 /\ st.cb # 0 /\ st.cbArmed
       /\ TimerEvents(st) # {}
       /\ streams' = [streams EXCEPT ![i].cbDispatch = TRUE]
       /\ priv' = [priv EXCEPT !.timer = [st |-> serial, cb |-> st.cb]]
       /\ last' = NoLast
       /\ dispatched' = NoDispatch
       /\ UNCHANGED <<counter, nextId, calls, waitDispatch, stOpen, bufferOffset,
                      bufferLength, rxFrame, wakeBytes, pc, cur, fds, nbytes, wire,
                      srv, sock, delivered, eventQueue, notified, halted>>

\* the user callback has returned: the mutex is taken again, cbDispatch is
\* cleared and the free function that was copied is invoked if no callback is
\* registered now; a stream that was released in between is freed memory
TimerReturns ==
    LET i == StreamIndex(streams, 1, priv.timer.st)
        st == streams[i]
    IN /\ halted = "no" /\ priv.timer # NoTimer
       /\ IF i = 0
          THEN halted' = "fault" /\ streams' = streams
          ELSE /\ halted' = halted
               /\ streams' = [streams EXCEPT
                     ![i] = [st EXCEPT !.cbDispatch = FALSE,
                                       !.cbFreed[priv.timer.cb] =
                                           IF st.cb = 0 THEN @ + 1 ELSE @]]
       /\ priv' = [priv EXCEPT !.timer = NoTimer]
       /\ last' = NoLast
       /\ dispatched' = NoDispatch
       /\ UNCHANGED <<counter, nextId, calls, waitDispatch, stOpen, bufferOffset,
                      bufferLength, rxFrame, wakeBytes, pc, cur, fds, nbytes, wire,
                      srv, sock, delivered, eventQueue, notified>>

\* streams that are read and finished by the application, one of them with
\* a callback
MayCallTimer == nextId <= MaxCallsTimer

\* the callbacks that were added to the streams of the registry
RECURSIVE CallbacksAdded(_)
CallbacksAdded(sts) ==
    IF sts = <<>> THEN 0 ELSE Head(sts).cbAdded + CallbacksAdded(Tail(sts))

MayAddTimer == CallbacksAdded(streams) < MaxCallbacksTimer

\* the streams are opened one after the other; the server delivers each of
\* its frames in one piece
MayOpenTimer ==
    MayCallTimer /\ Len(streams) < MaxStreamsTimer /\ waitDispatch = <<>>

InitTimer ==
    /\ counter = 0
    /\ nextId = 1
    /\ calls = <<>>
    /\ waitDispatch = <<>>
    /\ streams = <<>>
    /\ stOpen = {}
    /\ bufferOffset = 0
    /\ bufferLength = 0
    /\ rxFrame = NoFrame
    /\ wakeBytes = 0
    /\ pc = [t \in Threads |-> "idle"]
    /\ cur = [t \in Threads |-> 0]
    /\ fds = [t \in Threads |-> NoFds]
    /\ nbytes = [t \in Threads |-> 0]
    /\ last = NoLast
    /\ wire = <<>>
    /\ srv = [NoSrv EXCEPT !.splits = {}]
    /\ sock = "open"
    /\ delivered = <<>>
    /\ eventQueue = <<>>
    /\ notified = <<>>
    /\ dispatched = NoDispatch
    /\ halted = "no"
    /\ priv = PrivReady

NextTimer ==
    \/ MayOpenTimer /\ \E t \in Threads : OpenStream(t)
    \/ MayCallTimer /\ \E t \in Threads, s \in stOpen, k \in {"send", "finish"} :
          StreamPacket(t, s, k)
    \/ MayCallTimer /\ \E t \in Threads, s \in stOpen, n \in RecvSizes, nb \in BOOLEAN :
          StreamRecv(t, s, n, nb)
    \/ MayAddTimer /\ \E t \in Threads, s \in stOpen, ev \in SUBSET StreamEvents :
          remoteStreamEventAddCallback(t, s, ev)
    \/ \E t \in Threads, s \in stOpen, ev \in SUBSET StreamEvents :
          remoteStreamEventUpdateCallback(t, s, ev)
    \/ \E t \in Threads, s \in stOpen : remoteStreamEventRemoveCallback(t, s)
    \/ \E t \in Threads : EventLoopBody(t)
    \/ \E t \in Threads : Wake(t)
    \/ EventFired

SpecTimer == InitTimer /\ [][NextTimer]_vars

\* a stream whose callback is dispatched by the timer of the event loop
NextCallback ==
    \/ MayCallTimer /\ Len(streams) < MaxStreams /\ \E t \in Threads : OpenStream(t)
    \/ \E t \in Threads, s \in stOpen, ev \in SUBSET StreamEvents :
          remoteStreamEventAddCallback(t, s, ev)
    \/ \E t \in Threads, s \in stOpen, ev \in SUBSET StreamEvents :
          remoteStreamEventUpdateCallback(t, s, ev)
    \/ \E t \in Threads, s \in stOpen : remoteStreamEventRemoveCallback(t, s)
    \/ \E s \in stOpen : remoteStreamEventTimer(s)
    \/ TimerReturns
    \/ \E t \in Threads : EventLoopBody(t)
    \/ EventFired

SpecCallback == Init /\ [][NextCallback]_vars

(* ------------------- release out of a longer registry ------------------- *)
\* the application opens its streams one after the other and finishes one
\* while at most one other operation is under way
MayCallRelease == nextId <= MaxCallsRelease

MayOpenRelease ==
    MayCallRelease /\ Len(streams) < MaxStreamsRelease /\ waitDispatch = <<>>

MayFinishRelease == MayCallRelease /\ Len(waitDispatch) <= 1

NextRelease ==
    \/ MayOpenRelease /\ \E t \in Threads : OpenStream(t)
    \/ MayFinishRelease /\ \E t \in Threads, s \in stOpen : StreamPacket(t, s, "finish")
    \/ \E t \in Threads : EventLoopBody(t)
    \/ \E t \in Threads : Wake(t)

SpecRelease == Init /\ [][NextRelease]_vars

(* ------------------------ events during the open ----------------------- *)
\* doRemoteOpen before remoteAuthenticate, with a server that announces an
\* event although none was asked for
InitOpenEvents ==
    /\ counter = 0
    /\ nextId = 1
    /\ calls = <<>>
    /\ waitDispatch = <<>>
    /\ streams = <<>>
    /\ stOpen = {}
    /\ bufferOffset = 0
    /\ bufferLength = 0
    /\ rxFrame = NoFrame
    /\ wakeBytes = 0
    /\ pc = [t \in Threads |-> "idle"]
    /\ cur = [t \in Threads |-> 0]
    /\ fds = [t \in Threads |-> NoFds]
    /\ nbytes = [t \in Threads |-> 0]
    /\ last = NoLast
    /\ wire = <<>>
    /\ srv = [NoSrv EXCEPT !.auths = AuthLists, !.splits = {}, !.evMax = 1]
    /\ sock = "open"
    /\ delivered = <<>>
    /\ eventQueue = <<>>
    /\ notified = <<>>
    /\ dispatched = NoDispatch
    /\ halted = "no"
    /\ \E authtype \in {"NULL", "sasl"} :
         priv = [PrivReady EXCEPT !.stage = "auth", !.opens = 0, !.authtype = authtype]

SpecOpenEvents == InitOpenEvents /\ [][NextAuth]_vars

(* -------------------------------- claims -------------------------------- *)
\* the call of AUTH_LIST has just returned
AuthListReturn == last.kind = "auth_list"

\* an authentication method was entered: remoteAuthSASL has run, or runs
MethodEntered ==
    \/ priv.stage \in {"sasl", "start", "step"} \/ priv.steps > 0 \/ priv.saslconn
    \/ \E i \in 1..Len(wire) : wire[i].kind \in {"sasl_init", "sasl_start", "sasl_step"}

\* C21: when the call of AUTH_LIST returns because the server answered it with
\* the unknown-procedure error, remoteAuthenticate has succeeded with no
\* authentication method entered and doRemoteOpen goes on to its call of
\* OPEN; when it returns with any other failure, the open has failed; and a
\* method is only ever entered after the server has sent a list of types
C21_AuthListMissing ==
    /\ AuthListReturn =>
          IF last.via = "cleanup" /\ last.mode = REMOTE_MODE_ERROR /\ Canonical(ReplyError)
          THEN priv.stage = "open" /\ ~MethodEntered /\ priv.sockOpen /\ ~priv.freed
          ELSE last.rv < 0 => priv.stage = "failed"
    /\ MethodEntered => priv.types # <<>>

\* C21 happens: the server lacks AUTH_LIST, and the open goes on
C21_Witness ==
    /\ AuthListReturn /\ last.rv = -2 /\ Canonical(ReplyError)
    /\ priv.stage = "open"

\* remoteAuthSASL returns success in this step: its loop is left and the
\* function goes on to the call of OPEN
SaslSucceeds == priv.stage \in {"sasl", "start", "step"} /\ priv'.stage = "open"

\* C22: remoteAuthSASL returns success only out of its loop, with at least one
\* client step made after the start round, the latest client step having
\* returned SASL_OK and the latest reply of the server having shown
\* completion; while the latest client step returned SASL_CONTINUE a reply
\* that shows completion leaves the function in its loop
C22_BothComplete ==
    [][/\ SaslSucceeds =>
            /\ priv.stage = "step"
            /\ priv'.steps >= 1 /\ priv'.err = "SASL_OK" /\ priv'.complete
       /\ (/\ priv.stage = "step" /\ last'.kind = "sasl_step" /\ last'.rv = 0
           /\ priv'.complete /\ priv'.err = "SASL_CONTINUE")
            => priv'.stage = "step" /\ ~priv'.saslconn]_vars

\* C22 happens: the server showed completion while the client step still
\* returned SASL_CONTINUE, and the function succeeded one client step later
C22_Witness ==
    /\ priv.stage = "open" /\ priv.saslconn /\ priv.steps = 2
    /\ priv.err = "SASL_OK" /\ priv.complete
    /\ \E i \in 1..Len(wire) : wire[i].kind = "sasl_step"

\* remoteAuthSASL returns failure in this step
SaslFails == priv.stage \in {"sasl", "start", "step"} /\ priv'.stage = "failed"

\* C23: on a connection that was not secure, remoteAuthSASL returns success
\* only with a negotiated security factor of 56 or more, and then the
\* connection is marked secure and the SASL context is the wrapper; on a
\* connection that was secure the context is the wrapper without that test;
\* when the function fails no context is the wrapper
C23_SecurityFactor ==
    [][/\ (SaslSucceeds /\ ~priv.is_secure) => priv'.ssf >= 56
       /\ SaslSucceeds => priv'.is_secure /\ priv'.saslconn
       /\ SaslFails => ~priv'.saslconn]_vars

\* C23 happens: a factor of exactly 56 is accepted on a connection that was
\* not secure
C23_Witness ==
    /\ priv.stage = "open" /\ priv.saslconn /\ priv.is_secure /\ priv.ssf = 56

\* C23 happens: a factor of 55 is refused
C23_WitnessRefused ==
    /\ priv.stage = "failed" /\ priv.ssf = 55 /\ ~priv.saslconn /\ ~priv.is_secure

\* C24: through every sequence of opens that share the connection and of
\* closes, localUses is the number of opens less the number of closes; the
\* private data is freed at most once and only with localUses 0; the
\* transport is closed only with localUses 0; and once the close that brought
\* localUses to 0 has returned the private data is freed and the transport is
\* closed, both or neither
C24_LastCloseFrees ==
    /\ priv.localUses = priv.opens - priv.closes
    /\ priv.frees <= 1
    /\ (priv.freed \/ ~priv.sockOpen) => priv.localUses = 0
    /\ priv.freed <=> ~priv.sockOpen
    /\ last.kind = "close" => priv.freed /\ ~priv.sockOpen

\* this step makes the call() of the given kind for eventID
CallsFor(kind, eventID) ==
    /\ nextId' = nextId + 1
    /\ calls'[nextId].kind = kind
    /\ priv'.eventID[calls'[nextId].owner] = eventID

\* this step is a registration, or a deregistration, of a callback for
\* eventID: an operation begins and the number of callbacks changes
Registers(eventID) ==
    last' = NoLast /\ priv'.callbacks[eventID] = priv.callbacks[eventID] + 1

Deregisters(eventID) ==
    last' = NoLast /\ priv'.callbacks[eventID] = priv.callbacks[eventID] - 1

\* C25: for every event id, the call of REGISTER_ANY is made by the
\* registrations that take the number of callbacks for the id from 0 to 1 and
\* by no other step, and the call of DEREGISTER_ANY by the deregistrations that
\* take it from 1 to 0 and by no other step; a registration or
\* deregistration that leaves the number above 0 makes no call at all
C25_Step ==
    \A e \in EventIds :
      /\ CallsFor("register", e) <=> (Registers(e) /\ priv.callbacks[e] = 0)
      /\ CallsFor("deregister", e) <=> (Deregisters(e) /\ priv.callbacks[e] = 1)
      /\ ((Registers(e) /\ priv.callbacks[e] > 0) \/ (Deregisters(e) /\ priv.callbacks[e] > 1))
            => nextId' = nextId /\ calls' = calls /\ wire' = wire

C25_EnableDisable == [][C25_Step]_vars

\* C25 happens: the server was asked to enable events and later to disable
\* them, and the deregistration that left an id without callbacks has returned
C25_Witness ==
    /\ \E i \in 1..Len(wire) : wire[i].kind = "register"
    /\ \E i \in 1..Len(wire) : wire[i].kind = "deregister"
    /\ \E e \in EventIds : priv.callbacks[e] = 0 /\ last.kind = "deregister" /\ last.rv = 0

\* the close has returned while another thread is still inside remoteIO
ClosedUnderCallers == priv.freed /\ \E t \in Threads : pc[t] \in {"poll", "sleep"}

\* every thread has returned from its operation
AllReturned == \A t \in Threads : pc[t] = "idle"

\* C26: when the connection is closed from another thread while callers are
\* blocked inside remoteIO, the close returns and then every blocked caller
\* returns from its call
C26_CloseUnblocks == ClosedUnderCallers ~> AllReturned

\* C27: when remoteIO has returned, with success or with an error, its call
\* object is not linked in waitDispatch
C27_ReturnUnlinks == last.id # 0 => last.id \notin Range(waitDispatch)

\* call id was appended behind a dispatcher that sits in poll() without
\* having asked for POLLOUT, and still waits to be written
QueuedBehindPoll(id) ==
    /\ halted = "no" /\ sock = "open"
    /\ id \in Range(waitDispatch) /\ ~calls[id].freed
    /\ calls[id].mode = REMOTE_MODE_WAIT_TX
    /\ \E d \in Threads : pc[d] = "poll" /\ cur[d] # id /\ ~fds[d].evOut

\* the frame of call id is on the wire, every byte of it
FrameWritten(id) ==
    \E i \in 1..Len(wire) : wire[i].id = id /\ wire[i].n = wire[i].len

\* the operation of call id has returned, the transport is gone or the
\* process has stopped
CallOver(id) ==
    \/ halted # "no" \/ sock = "closed"
    \/ id \notin DOMAIN calls \/ calls[id].freed

\* C28: a call in WAIT_TX that is appended to waitDispatch while the
\* dispatcher sits in poll() without POLLOUT is written in the end, every byte
\* of its frame, unless its operation has returned before, the transport has
\* gone or the process has stopped
C28_WakeupWrites ==
    \A id \in 1..MaxCallsLive : QueuedBehindPoll(id) ~> (FrameWritten(id) \/ CallOver(id))

\* C28 happens: the dispatcher has written its own frame and waits for the
\* reply, it has taken the byte out of the wake-up pipe and asks for POLLOUT
\* again, for the call that was appended behind it
C28_Witness ==
    \E d \in Threads :
      /\ pc[d] = "poll" /\ fds[d].evOut /\ wakeBytes = 0
      /\ Len(waitDispatch) = 2 /\ waitDispatch[1] = cur[d]
      /\ calls[cur[d]].mode = REMOTE_MODE_WAIT_RX
      /\ calls[waitDispatch[2]].mode = REMOTE_MODE_WAIT_TX
      /\ ~FrameWritten(waitDispatch[2])

\* C28 happens: the frame of the call appended behind the dispatcher has been
\* written by the dispatcher, which still waits for its own reply
C28_WitnessWritten ==
    \E d \in Threads :
      /\ pc[d] = "poll" /\ ~fds[d].evOut /\ wakeBytes = 0
      /\ Len(waitDispatch) = 2 /\ waitDispatch[1] = cur[d]
      /\ calls[cur[d]].mode = REMOTE_MODE_WAIT_RX
      /\ calls[waitDispatch[2]].mode = REMOTE_MODE_WAIT_RX
      /\ FrameWritten(waitDispatch[2])

\* call id stays allocated through this step and leaves WAIT_TX in it
LeavesWaitTx(id) ==
    /\ id \in DOMAIN calls' /\ ~calls[id].freed
    /\ calls[id].mode = REMOTE_MODE_WAIT_TX
    /\ calls'[id].mode # REMOTE_MODE_WAIT_TX

\* C29: a call leaves WAIT_TX only in a step that writes, and then the wire
\* holds every byte of its own frame (of the ciphertext made from its own
\* frame, with the security wrapper), and its mode is WAIT_RX if it wants a
\* reply and COMPLETE otherwise; a step that writes nothing takes no call out
\* of WAIT_TX
C29_Step ==
    \A id \in DOMAIN calls :
        LeavesWaitTx(id) =>
            /\ wire' # wire
            /\ \E i \in 1..Len(wire') : wire'[i].id = id /\ wire'[i].n = wire'[i].len
            /\ calls'[id].mode = IF calls[id].want_reply THEN REMOTE_MODE_WAIT_RX
                                                         ELSE REMOTE_MODE_COMPLETE

C29_LeavesWaitTx == [][C29_Step]_vars

\* thread t goes into poll() at the end of this step: it has just become the
\* dispatcher, or it has gone round the loop once more
GoesToPoll(t) == pc'[t] = "poll" /\ (pc[t] # "poll" \/ EventLoopBody(t))

\* C30: whenever a thread goes into poll(), the events it asks for on the
\* transport are those of the state at that moment: POLLOUT exactly when some
\* queued call is in WAIT_TX, POLLIN exactly when some queued call is in
\* WAIT_RX or the stream registry is not empty
C30_Step ==
    \A t \in Threads :
        GoesToPoll(t) =>
            /\ fds'[t].evOut <=>
                  \E id \in Range(waitDispatch') : calls'[id].mode = REMOTE_MODE_WAIT_TX
            /\ fds'[t].evIn <=>
                  \/ \E id \in Range(waitDispatch') : calls'[id].mode = REMOTE_MODE_WAIT_RX
                  \/ streams' # <<>>

C30_PollInterest == [][C30_Step]_vars

\* C30 happens: the dispatcher has written its own frame and asks for POLLOUT
\* for a call behind it and for POLLIN for its own reply
C30_Witness ==
    \E t \in Threads :
        /\ pc[t] = "poll" /\ fds[t].evOut /\ fds[t].evIn
        /\ Len(waitDispatch) >= 2 /\ waitDispatch[1] = cur[t]
        /\ calls[cur[t]].mode = REMOTE_MODE_WAIT_RX
        /\ \E i \in 2..Len(waitDispatch) : calls[waitDispatch[i]].mode = REMOTE_MODE_WAIT_TX

\* C30 happens: POLLIN is asked for on account of the stream registry alone
C30_WitnessStreams ==
    \E t \in Threads :
        /\ pc[t] = "poll" /\ fds[t].evIn /\ streams # <<>>
        /\ \A id \in Range(waitDispatch) : calls[id].mode # REMOTE_MODE_WAIT_RX

\* a MESSAGE frame is handed to the dispatch in this step while thread t
\* dispatches for a call made with REMOTE_CALL_IN_OPEN
MessageInOpen(t) ==
    /\ pc[t] = "poll" /\ calls[cur[t]].in_open
    /\ dispatched'.frame.type = "MESSAGE"

\* C31: a MESSAGE frame that is dispatched while a call made during the open
\* waits is dropped: the event queue stays as it is and the call is not failed
\* by the frame, it goes on waiting or returns with its own reply
C31_Step ==
    \A t \in Threads :
        MessageInOpen(t) =>
            /\ eventQueue' = eventQueue
            /\ halted' = "no"
            /\ \/ pc'[t] = "poll" /\ cur'[t] = cur[t]
               \/ last'.id = cur[t] /\ last'.via = "cleanup"

C31_EventInOpenDropped == [][C31_Step]_vars

\* the condition wait of the call that has just returned failed
WaitFailed == last.via = "wait_error"

\* C32: when the condition wait of a sleeping caller fails, its call is no
\* longer in waitDispatch, every other call of the queue is still there in
\* the order it had, and the caller returns -1
C32_Step ==
    \A t \in Threads :
        (pc[t] = "sleep" /\ WaitFailed') =>
            /\ waitDispatch' = Remove(waitDispatch, last'.id)
            /\ last'.id \notin Range(waitDispatch')
            /\ last'.rv = -1

C32_WaitFailureUnlinks == [][C32_Step]_vars

\* the call was between the dispatcher's call and a later sleeper
C32_Witness ==
    /\ WaitFailed /\ Len(waitDispatch) >= 2
    /\ Head(waitDispatch) < last.id
    /\ last.id < waitDispatch[Len(waitDispatch)]

\* the call was the last of the queue
C32_WitnessTail ==
    /\ WaitFailed /\ ~Terminal(last.mode) /\ waitDispatch # <<>>
    /\ waitDispatch[Len(waitDispatch)] < last.id

\* the call was the head: the role had been handed to it
C32_WitnessHead ==
    /\ WaitFailed /\ ~Terminal(last.mode) /\ waitDispatch # <<>>
    /\ last.id < Head(waitDispatch)

\* the dispatcher had already taken the call out of the queue
C32_WitnessRemoved == WaitFailed /\ Terminal(last.mode) /\ waitDispatch # <<>>

\* the streams of the registry, in the order of the list
Serials(sts) == [i \in 1..Len(sts) |-> sts[i].serial]

\* C33: a step that releases a stream the application holds ends, and it
\* takes that stream and no other out of the registry
C33_Step ==
    \A s \in stOpen \ stOpen' :
        /\ halted' = "no"
        /\ Serials(streams') = Remove(Serials(streams), s)

C33_ReleaseRemovesOne == [][C33_Step]_vars

\* an operation on stream st is under way: a thread is inside a call made for it
StreamBusy(st) ==
    \E t \in Threads :
        /\ pc[t] # "idle" /\ cur[t] \in DOMAIN calls
        /\ calls[cur[t]].serial = st.serial

\* the condition under which the timer of st is to fire
TimerWanted(st) ==
    \/ st.incoming # <<>> /\ "READABLE" \in st.cbEvents
    \/ "WRITABLE" \in st.cbEvents

\* C34: for a stream with a registered callback and no operation under way,
\* the timer is armed exactly when data is buffered and READABLE is asked
\* for, or WRITABLE is asked for
C34_TimerArmed ==
    halted = "no" =>
        \A i \in 1..Len(streams) :
            (streams[i].cb # 0 /\ ~StreamBusy(streams[i])) =>
                (streams[i].cbArmed <=> TimerWanted(streams[i]))

\* a data packet was appended in the latest step and armed the timer
C34_Witness ==
    /\ dispatched.frame.type = "STREAM" /\ dispatched.frame.status = "CONTINUE"
    /\ \E i \in 1..Len(streams) :
          /\ streams[i].cb # 0 /\ ~StreamBusy(streams[i])
          /\ streams[i].cbEvents = {"READABLE"}
          /\ streams[i].incoming # <<>> /\ streams[i].cbArmed

\* a data packet was appended in the latest step while a finish was queued
C34_WitnessFinish ==
    /\ dispatched.frame.type = "STREAM" /\ dispatched.frame.status = "CONTINUE"
    /\ \E i \in 1..Len(streams), t \in Threads :
          /\ streams[i].cb # 0 /\ streams[i].incoming # <<>>
          /\ cur[t] \in DOMAIN calls /\ calls[cur[t]].kind = "finish"
          /\ calls[cur[t]].serial = streams[i].serial

\* callback g of stream st is being executed by the timer
Executing(st, g) == priv.timer = [st |-> st.serial, cb |-> g]

\* C35: the free function of a stream callback is not invoked while the
\* callback is registered or being executed, never more than once, and once
\* the callback is removed and no dispatch is under way it has been invoked
C35_FreeOnce ==
    \A i \in 1..Len(streams) : \A g \in 1..Len(streams[i].cbFreed) :
        /\ streams[i].cbFreed[g] <= 1
        /\ (streams[i].cb = g \/ Executing(streams[i], g)) => streams[i].cbFreed[g] = 0
        /\ (streams[i].cb # g /\ priv.timer = NoTimer) => streams[i].cbFreed[g] = 1

\* priv->buffer, its offset or its length change in this step, or a frame
\* taken from it is dispatched
BufferTouched ==
    \/ <<rxFrame, bufferOffset, bufferLength>>' # <<rxFrame, bufferOffset, bufferLength>>
    \/ dispatched' # NoDispatch

\* thread t is the one dispatcher: it is in poll() for the head of the queue
\* and no other thread is in poll()
Dispatcher(t) ==
    /\ pc[t] = "poll" /\ waitDispatch # <<>> /\ cur[t] = Head(waitDispatch)
    /\ \A u \in Threads \ {t} : pc[u] # "poll"

\* C36: priv->buffer is used only by a pass of the event loop of the one
\* dispatcher, or by remoteDomainEventFired while waitDispatch is empty
C36_Step ==
    BufferTouched =>
        IF waitDispatch = <<>> THEN EventFired
        ELSE \E t \in Threads : Dispatcher(t) /\ EventLoopBody(t)

C36_BufferOwner == [][C36_Step]_vars

\* the watch callback has taken a frame off the transport and dispatched it
C36_Witness ==
    /\ dispatched # NoDispatch /\ waitDispatch = <<>>
    /\ last = NoLast /\ \A t \in Threads : pc[t] = "idle"

\* the calls that are linked in waitDispatch behind its head
BehindHead == IF waitDispatch = <<>> THEN 0 ELSE Len(waitDispatch) - 1

\* C37: the wake-up pipe never holds more unread bytes than there are calls
\* queued behind the head of waitDispatch
C37_WakeBounded == wakeBytes <= BehindHead

\* poll() of thread t may report POLLOUT, which takes the pass into
\* remoteIOHandleOutput
WriteAsked(t) == pc[t] = "poll" /\ fds[t].evOut

\* C38: whenever a dispatcher is in poll() and has asked for POLLOUT, a call
\* of the queue is in WAIT_TX, so that remoteIOHandleOutput finds a call to
\* write and does not return -1
C38_WriteHasCall ==
    halted = "no" =>
        \A t \in Threads : WriteAsked(t) => FirstWaitTx(waitDispatch, calls, 1) # 0

\* C39: once the private data is freed, the transport socket and the wake-up
\* pipe, the first and the last of the descriptors that doRemoteClose closes,
\* are closed
C39_ClosedBeforeFreed == priv.freed => (~priv.sockOpen /\ ~priv.wakeupSendFD)

\* a call that enables or disables the events of eventID is under way
Switching(eventID) ==
    \E u \in Threads :
        /\ pc[u] # "idle" /\ cur[u] \in DOMAIN calls
        /\ calls[cur[u]].kind \in {"register", "deregister"}
        /\ calls[cur[u]].arg = eventID

\* C40: while callbacks are registered for an event id and no call that
\* enables or disables the id is under way, the server has the events of the
\* id enabled
C40_RegisteredEnabled ==
    \A e \in EventIds :
        (priv.callbacks[e] > 0 /\ ~Switching(e)) => e \in srv.enabled

=============================================================================
